---- MODULE Spec2Model ----
(***************************************************************************)
(* Model of observoid/vector-shapes (src/src/index.ts): the SVG path-data  *)
(* parser fromSVGPathData (splitSubPathStrings -> concatMap -> pathCommands*)
(* -> toArray -> map), the serializer toSVGPathData, and the operators on   *)
(* SubPaths invertSubPaths and curvifyArcCommands.                         *)
(*                                                                         *)
(* Text is a sequence of one-character strings.  A JavaScript number is a  *)
(* record [nan, v]: NaN is [nan |-> TRUE, v |-> 0], every other value of   *)
(* the model is an integer (sums of small integers are exact in doubles).  *)
(***************************************************************************)
EXTENDS Integers, Sequences, FiniteSets, TLC

VARIABLES
  parts,      \* the pieces of text the document is written from
  doc,        \* the whole text the source observable delivers: parts joined
  whole,      \* TRUE: the source is of(doc), one chunk; FALSE: any chunking
  pos,        \* number of characters of doc delivered so far
  cutInNumber,\* history: some chunk ended between two digits of a number
  str,        \* splitSubPathStrings: the buffer `str`                (l.351)
  lastPoint,  \* fromSVGPathData: the closure variable `lastPoint`    (l.386)
  out,        \* SubPaths delivered to the consumer, in order
  status,     \* "open", "complete" or "error": the terminal notification
  handed,     \* history: strings the splitter passed to concatMap
  cmdLog,     \* history: one entry per onCompleteCommand call that emitted or failed
  input,      \* the SubPaths a source delivers to an operator on SubPaths
  taken,      \* number of items of that source the operator has received
  delivered,  \* what the operator has delivered to its consumer, in order
  opStatus,   \* "idle" (no operator subscribed), "open", "complete" or "error"
  consumed,   \* history: the items of input whose commands were subscribed to
  earlier,    \* history: what the subscriptions before the current one delivered
  tokenizer,  \* a pathCommands subscription fed in chunks: its startPoint and state
  opState     \* curvifyArcCommands: lastPoint (l.554), the number k of commands
              \* received of the current SubPath, and the history of the handler calls;
              \* transformSubPathPoints: the transformer, k, whether the commands
              \* of the current SubPath have failed, and the history

vars == <<parts, doc, whole, pos, cutInNumber, str, lastPoint, out, status, handed, cmdLog,
          input, taken, delivered, opStatus, consumed, earlier, tokenizer, opState>>

-----------------------------------------------------------------------------
(* Characters and character classes of the regular expressions.            *)

LowerLetters ==
  {"a","b","c","d","e","f","g","h","i","j","k","l","m",
   "n","o","p","q","r","s","t","u","v","w","x","y","z"}

UpperLetters ==
  {"A","B","C","D","E","F","G","H","I","J","K","L","M",
   "N","O","P","Q","R","S","T","U","V","W","X","Y","Z"}

\* [a-df-z] under the /i flag: every letter but e and E.
CmdLetters == (LowerLetters \cup UpperLetters) \ {"e", "E"}

\* [zm] under the /i flag.
MoveOrClose == {"m", "M", "z", "Z"}

Digits == <<"0","1","2","3","4","5","6","7","8","9">>

IsSpace(c) == c = " "

\* index of the first non-blank character of s, or 0 (the \s* prefix of every regexp)
RECURSIVE FirstNonSpaceFrom(_, _)
FirstNonSpaceFrom(s, i) ==
  IF i > Len(s) THEN 0
  ELSE IF IsSpace(s[i]) THEN FirstNonSpaceFrom(s, i + 1)
  ELSE i

FirstNonSpace(s) == FirstNonSpaceFrom(s, 1)

\* index of the first character at or after i that lies in set, or Len(s)+1
RECURSIVE FirstIn(_, _, _)
FirstIn(s, i, set) ==
  IF i > Len(s) THEN Len(s) + 1
  ELSE IF s[i] \in set THEN i
  ELSE FirstIn(s, i + 1, set)

\* index of the first character at or after i that is not blank, or Len(s)+1
RECURSIVE SkipSpaces(_, _)
SkipSpaces(s, i) ==
  IF i > Len(s) THEN Len(s) + 1
  ELSE IF IsSpace(s[i]) THEN SkipSpaces(s, i + 1)
  ELSE i

\* /\S/.test(s)
HasNonSpace(s) == FirstNonSpace(s) # 0

\* String.prototype.trim
RECURSIVE TrimRight(_)
TrimRight(s) ==
  IF s = <<>> THEN s
  ELSE IF IsSpace(s[Len(s)]) THEN TrimRight(SubSeq(s, 1, Len(s) - 1))
  ELSE s

Trim(s) ==
  LET i == FirstNonSpace(s)
  IN  IF i = 0 THEN <<>> ELSE TrimRight(SubSeq(s, i, Len(s)))

RECURSIVE Flatten(_)
Flatten(ss) == IF ss = <<>> THEN <<>> ELSE Head(ss) \o Flatten(Tail(ss))

-----------------------------------------------------------------------------
(* Numbers: parseFloat and the template-literal number formatting.         *)

Num(v) == [nan |-> FALSE, v |-> v]
NaN == [nan |-> TRUE, v |-> 0]

Add(a, b) == IF a.nan \/ b.nan THEN NaN ELSE Num(a.v + b.v)
Sub(a, b) == IF a.nan \/ b.nan THEN NaN ELSE Num(a.v - b.v)

DigitValue(c) == CHOOSE d \in 0..9 : Digits[d + 1] = c
IsDigit(c) == \E d \in 1..10 : Digits[d] = c

\* value of the longest run of digits of s from i on, given the value acc so far
RECURSIVE DigitRun(_, _, _)
DigitRun(s, i, acc) ==
  IF i > Len(s) \/ ~IsDigit(s[i]) THEN acc
  ELSE DigitRun(s, i + 1, acc * 10 + DigitValue(s[i]))

\* parseFloat on a token without blanks: an optional sign and the longest
\* prefix of digits; NaN when no digit follows the sign.  What follows the
\* digits is ignored, as parseFloat does.  (The texts of this model hold no
\* '.', no exponent and no "Infinity".)
ParseFloat(tok) ==
  LET signed == tok # <<>> /\ tok[1] \in {"-", "+"}
      i == IF signed THEN 2 ELSE 1
  IN  IF i > Len(tok) \/ ~IsDigit(tok[i]) THEN NaN
      ELSE IF signed /\ tok[1] = "-" THEN Num(0 - DigitRun(tok, i, 0))
      ELSE Num(DigitRun(tok, i, 0))

RECURSIVE NatToStr(_)
NatToStr(n) ==
  IF n < 10 THEN <<Digits[n + 1]>>
  ELSE NatToStr(n \div 10) \o <<Digits[(n % 10) + 1]>>

\* `${x}` for a number x
NumToStr(a) ==
  IF a.nan THEN <<"N", "a", "N">>
  ELSE IF a.v < 0 THEN <<"-">> \o NatToStr(0 - a.v)
  ELSE NatToStr(a.v)

\* s.split(/\s*,\s*|\s+/g) for a trimmed s: the tokens between separators.
\* A separator is blanks-comma-blanks, or else a run of blanks.
RECURSIVE SplitFrom(_, _, _)
SplitFrom(s, p, q) ==
  IF q > Len(s) THEN <<SubSeq(s, p, Len(s))>>
  ELSE IF IsSpace(s[q]) \/ s[q] = ","
  THEN LET a == SkipSpaces(s, q)
           e == IF a <= Len(s) /\ s[a] = "," THEN SkipSpaces(s, a + 1) ELSE a
       IN  <<SubSeq(s, p, q - 1)>> \o SplitFrom(s, e, e)
  ELSE SplitFrom(s, p, q + 1)

SplitParams(s) == SplitFrom(s, 1, 1)

MapParseFloat(toks) == [i \in 1..Len(toks) |-> ParseFloat(toks[i])]

-----------------------------------------------------------------------------
(* The regular expressions of the parser, each as the match it yields.     *)

NoMatch == [ok |-> FALSE]

\* str.match(/^\s*(\S[^zm]*)(?=m)/i)                       (index.ts l.356)
\* m1 is match[1], len0 is match[0].length.
SplitMatchNext(s) ==
  LET i == FirstNonSpace(s)
      j == FirstIn(s, i + 1, MoveOrClose)
  IN  IF i = 0 \/ j > Len(s) THEN NoMatch
      ELSE IF s[j] \notin {"m", "M"} THEN NoMatch
      ELSE [ok |-> TRUE, m1 |-> SubSeq(s, i, j - 1), len0 |-> j - 1]

\* str.match(/^\s*(\S[\s\S]*)$/i)                          (index.ts l.370)
SplitMatchEnd(s) ==
  LET i == FirstNonSpace(s)
  IN  IF i = 0 THEN NoMatch
      ELSE [ok |-> TRUE, m1 |-> SubSeq(s, i, Len(s))]

\* the expression without its `$`: whatever follows the close directive is ignored
SubPathMatchUnanchored(s) ==
  LET i == FirstNonSpace(s)
      j == FirstIn(s, i + 1, CmdLetters)
      k == FirstIn(s, j, MoveOrClose)
  IN  IF i = 0 THEN NoMatch
      ELSE IF s[i] \notin {"m", "M"} THEN NoMatch
      ELSE IF k > Len(s)
      THEN [ok |-> TRUE, m1 |-> s[i], m2 |-> SubSeq(s, i + 1, j - 1),
            m3 |-> SubSeq(s, j, Len(s)), m4 |-> FALSE]
      ELSE [ok |-> TRUE, m1 |-> s[i], m2 |-> SubSeq(s, i + 1, j - 1),
            m3 |-> SubSeq(s, j, k - 1), m4 |-> s[k] \in {"z", "Z"}]

\* subPathString.match(/^\s*(m)([^a-df-z]*)([^mz]*)(z\s*)?$/i)  (index.ts l.390)
\* m4 is TRUE when group 4 (the close directive) took part in the match.
SubPathMatch(s) ==
  LET i == FirstNonSpace(s)
      j == FirstIn(s, i + 1, CmdLetters)
      k == FirstIn(s, j, MoveOrClose)
  IN  IF i = 0 THEN NoMatch
      ELSE IF s[i] \notin {"m", "M"} THEN NoMatch
      ELSE IF k > Len(s)
      THEN [ok |-> TRUE, m1 |-> s[i], m2 |-> SubSeq(s, i + 1, j - 1),
            m3 |-> SubSeq(s, j, Len(s)), m4 |-> FALSE]
      ELSE IF s[k] \in {"z", "Z"} /\ SkipSpaces(s, k + 1) > Len(s)
      THEN [ok |-> TRUE, m1 |-> s[i], m2 |-> SubSeq(s, i + 1, j - 1),
            m3 |-> SubSeq(s, j, k - 1), m4 |-> TRUE]
      ELSE NoMatch

\* str.match(/^\s*[a-df-z][^a-df-z]*(?=[a-df-z])/i)        (index.ts l.331)
\* len0 is match[0].length.
TokenMatch(s) ==
  LET i == FirstNonSpace(s)
      j == FirstIn(s, i + 1, CmdLetters)
  IN  IF i = 0 THEN NoMatch
      ELSE IF s[i] \notin CmdLetters \/ j > Len(s) THEN NoMatch
      ELSE [ok |-> TRUE, m0 |-> SubSeq(s, 1, j - 1), len0 |-> j - 1]

\* cmdString.match(/^\s*([a-df-z])\s*((?!\s)[^a-df-z]+)?$/i)   (index.ts l.107)
\* m2 is match[2], or <<>> when the group did not take part.
CmdMatch(s) ==
  LET i == FirstNonSpace(s)
      a == SkipSpaces(s, i + 1)
  IN  IF i = 0 THEN NoMatch
      ELSE IF s[i] \notin CmdLetters THEN NoMatch
      ELSE IF FirstIn(s, a, CmdLetters) <= Len(s) THEN NoMatch
      ELSE [ok |-> TRUE, m1 |-> s[i], m2 |-> SubSeq(s, a, Len(s))]

\* match[2] ? match[2].trim().split(/\s*,\s*|\s+/g).map(parseFloat) : []  (l.108)
CommandParameters(m2) ==
  IF m2 = <<>> THEN <<>> ELSE MapParseFloat(SplitParams(Trim(m2)))

-----------------------------------------------------------------------------
(* Segments (PathCommand, index.ts l.22-51) and the segment parser         *)
(* pathCommands (index.ts l.101-347).                                      *)

Pt(x, y) == [x |-> x, y |-> y]
Line(p) == [type |-> "L", toPoint |-> p]
QuadraticCurve(c, p) == [type |-> "Q", controlPoints |-> <<c>>, toPoint |-> p]
CubicCurve(c1, c2, p) == [type |-> "C", controlPoints |-> <<c1, c2>>, toPoint |-> p]
Arc(rx, ry, rot, large, sweep, p) ==
  [type |-> "A", radiusX |-> rx, radiusY |-> ry, rotateDegrees |-> rot,
   largeArcFlag |-> large, sweepFlag |-> sweep, toPoint |-> p]

\* an Arc whose optional largeArcFlag and sweepFlag are absent
ArcNoFlags(rx, ry, rot, p) ==
  [type |-> "A", radiusX |-> rx, radiusY |-> ry, rotateDegrees |-> rot, toPoint |-> p]

\* the truth value of an optional boolean field: absent (undefined) is falsy
Flag(obj, name) == name \in DOMAIN obj /\ obj[name]

\* !!x for a number x
Truthy(a) == ~a.nan /\ a.v # 0

\* {x: lastPoint.x + (lastPoint.x - mirror.x), y: lastPoint.y + (lastPoint.y - mirror.y)}
\* a reflection that forgets the point it reflects through
ReflectNoBase(p, m) == Pt(Sub(p.x, m.x), Sub(p.y, m.y))

\* a reflection that forgets to reflect: the mirror itself
ReflectBug(p, m) == m

Reflect(p, m) == Pt(Add(p.x, Sub(p.x, m.x)), Add(p.y, Sub(p.y, m.y)))

KnownCommands ==
  {"L","l","H","h","V","v","Q","q","T","t","C","c","S","s","A","a"}

\* the n of each case's test `length < n || length % n`
GroupSize(code) ==
  CASE code \in {"L", "l", "T", "t"} -> 2
    [] code \in {"H", "h", "V", "v"} -> 1
    [] code \in {"Q", "q", "S", "s"} -> 4
    [] code \in {"C", "c"} -> 6
    [] code \in {"A", "a"} -> 7

\* the test without its `length < n` half: a command without parameters passes
InvalidCountNoZero(code, n) == n % GroupSize(code) # 0

InvalidCount(code, n) == n < GroupSize(code) \/ n % GroupSize(code) # 0

\* {x: commandParameters[i], y: commandParameters[i+1]}: the pair at i, verbatim
AbsPoint(g, i) == Pt(g[i], g[i + 1])

\* {x: lastPoint.x + commandParameters[i], y: lastPoint.y + commandParameters[i+1]}
\* a relative pair taken as if it were absolute
RelPointBug(lp, g, i) == Pt(g[i], g[i + 1])

RelPoint(lp, g, i) == Pt(Add(lp.x, g[i]), Add(lp.y, g[i + 1]))

\* an H or h line that keeps the wrong coordinate
AlongXBug(lp, x) == Pt(x, lp.x)

\* {x: ..., y: lastPoint.y}: the point of an H or h line
AlongX(lp, x) == Pt(x, lp.y)

\* {x: lastPoint.x, y: ...}: the point of a V or v line
AlongY(lp, y) == Pt(lp.x, y)

\* the cursor after a pass: lastPoint, qMirror, cMirror
To(p, q, m) == [lastPoint |-> p, qMirror |-> q, cMirror |-> m]

\* One pass of a case's for loop: the parameter group g applied to the cursor
\* c = [lastPoint, qMirror, cMirror]; yields the new cursor and the segment.
ApplyGroup(code, c, g) ==
  LET lp == c.lastPoint
  IN  CASE code = "L" -> [c |-> To(AbsPoint(g, 1), c.qMirror, c.cMirror),
                          seg |-> Line(AbsPoint(g, 1))]
        [] code = "l" -> [c |-> To(RelPoint(lp, g, 1), c.qMirror, c.cMirror),
                          seg |-> Line(RelPoint(lp, g, 1))]
        [] code = "H" -> [c |-> To(AlongX(lp, g[1]), c.qMirror, c.cMirror),
                          seg |-> Line(AlongX(lp, g[1]))]
        [] code = "h" -> [c |-> To(AlongX(lp, Add(lp.x, g[1])), c.qMirror, c.cMirror),
                          seg |-> Line(AlongX(lp, Add(lp.x, g[1])))]
        [] code = "V" -> [c |-> To(AlongY(lp, g[1]), c.qMirror, c.cMirror),
                          seg |-> Line(AlongY(lp, g[1]))]
        [] code = "v" -> [c |-> To(AlongY(lp, Add(lp.y, g[1])), c.qMirror, c.cMirror),
                          seg |-> Line(AlongY(lp, Add(lp.y, g[1])))]
        [] code = "Q" -> [c |-> To(AbsPoint(g, 3), AbsPoint(g, 1), c.cMirror),
                          seg |-> QuadraticCurve(AbsPoint(g, 1), AbsPoint(g, 3))]
        [] code = "q" -> [c |-> To(RelPoint(lp, g, 3), RelPoint(lp, g, 1), c.cMirror),
                          seg |-> QuadraticCurve(RelPoint(lp, g, 1), RelPoint(lp, g, 3))]
        [] code = "T" -> [c |-> To(AbsPoint(g, 1), Reflect(lp, c.qMirror), c.cMirror),
                          seg |-> QuadraticCurve(Reflect(lp, c.qMirror), AbsPoint(g, 1))]
        [] code = "t" -> [c |-> To(RelPoint(lp, g, 1), Reflect(lp, c.qMirror), c.cMirror),
                          seg |-> QuadraticCurve(Reflect(lp, c.qMirror), RelPoint(lp, g, 1))]
        [] code = "C" -> [c |-> To(AbsPoint(g, 5), c.qMirror, AbsPoint(g, 3)),
                          seg |-> CubicCurve(AbsPoint(g, 1), AbsPoint(g, 3), AbsPoint(g, 5))]
        [] code = "c" -> [c |-> To(RelPoint(lp, g, 5), c.qMirror, RelPoint(lp, g, 3)),
                          seg |-> CubicCurve(RelPoint(lp, g, 1), RelPoint(lp, g, 3),
                                             RelPoint(lp, g, 5))]
        [] code = "S" -> [c |-> To(AbsPoint(g, 3), c.qMirror, AbsPoint(g, 1)),
                          seg |-> CubicCurve(Reflect(lp, c.cMirror), AbsPoint(g, 1),
                                             AbsPoint(g, 3))]
        [] code = "s" -> [c |-> To(RelPoint(lp, g, 3), c.qMirror, RelPoint(lp, g, 1)),
                          seg |-> CubicCurve(Reflect(lp, c.cMirror), RelPoint(lp, g, 1),
                                             RelPoint(lp, g, 3))]
        [] code = "A" -> [c |-> To(AbsPoint(g, 6), c.qMirror, c.cMirror),
                          seg |-> Arc(g[1], g[2], g[3], Truthy(g[4]), Truthy(g[5]),
                                      AbsPoint(g, 6))]
        [] code = "a" -> [c |-> To(RelPoint(lp, g, 6), c.qMirror, c.cMirror),
                          seg |-> Arc(g[1], g[2], g[3], Truthy(g[4]), Truthy(g[5]),
                                      RelPoint(lp, g, 6))]

\* subscriber.next(seg) and the cursor update of one pass of the loop
Emit(r, one) == [c |-> one.c, segs |-> Append(r.segs, one.seg)]

\* The for loop of a case: every group of params from index i on, in order.
\* r = [c |-> cursor, segs |-> segments emitted so far by this command].
RECURSIVE ApplyGroups(_, _, _, _)
ApplyGroups(code, params, i, r) ==
  IF i > Len(params) THEN r
  ELSE ApplyGroups(code, params, i + GroupSize(code),
                   Emit(r, ApplyGroup(code, r.c,
                                      SubSeq(params, i, i + GroupSize(code) - 1))))

\* a line case that leaves the mirrors where they were
AfterLoopKeepsMirrors(code, c) == c

\* `qMirror = cMirror = lastPoint` after the loop of the L, l, H, h, V, v cases
AfterLoop(code, c) ==
  IF code \in {"L", "l", "H", "h", "V", "v"}
  THEN [lastPoint |-> c.lastPoint, qMirror |-> c.lastPoint, cMirror |-> c.lastPoint]
  ELSE c

Cursor(pc) == [lastPoint |-> pc.lastPoint, qMirror |-> pc.qMirror, cMirror |-> pc.cMirror]

\* The state pc of one pathCommands subscription is
\*   [lastPoint, qMirror, cMirror, prefix, segs, status, log]:
\* segs are the segments passed to subscriber.next, status "error" is
\* subscriber.error, log has one entry per call of onCompleteCommand.

\* subscriber.error(new Error(...)); return
CommandFails(pc, cmdString, code, params, why) ==
  [pc EXCEPT !.status = "error",
             !.log = Append(@, [cmd |-> cmdString, code |-> code, params |-> params,
                                pre |-> Cursor(pc), post |-> Cursor(pc),
                                segs |-> <<>>, err |-> why])]

\* a case that ran its loop: r.segs were emitted, c is the cursor it leaves
CommandDone(pc, cmdString, code, params, segs, c) ==
  [pc EXCEPT !.lastPoint = c.lastPoint,
             !.qMirror = c.qMirror,
             !.cMirror = c.cMirror,
             !.segs = @ \o segs,
             !.log = Append(@, [cmd |-> cmdString, code |-> code, params |-> params,
                                pre |-> Cursor(pc), post |-> c,
                                segs |-> segs, err |-> ""])]

\* the loop of a case and what follows it
RunCase(pc, cmdString, code, params, r) ==
  CommandDone(pc, cmdString, code, params, r.segs, AfterLoop(code, r.c))

\* a switch without its default case: an unknown letter is skipped
SwitchSkipsUnknown(pc, cmdString, code, params) ==
  IF code \notin KnownCommands
  THEN CommandDone(pc, cmdString, code, params, <<>>, Cursor(pc))
  ELSE IF InvalidCount(code, Len(params))
  THEN CommandFails(pc, cmdString, code, params, "invalid number of parameters")
  ELSE RunCase(pc, cmdString, code, params,
               ApplyGroups(code, params, 1, [c |-> Cursor(pc), segs |-> <<>>]))

\* switch (commandCode) (l.109-324)
Switch(pc, cmdString, code, params) ==
  IF code \notin KnownCommands
  THEN CommandFails(pc, cmdString, code, params, "invalid command")
  ELSE IF InvalidCount(code, Len(params))
  THEN CommandFails(pc, cmdString, code, params, "invalid number of parameters")
  ELSE RunCase(pc, cmdString, code, params,
               ApplyGroups(code, params, 1, [c |-> Cursor(pc), segs |-> <<>>]))

\* l.107-108: a null match makes match[1] throw a TypeError
Matched(pc, cmdString, m) ==
  IF ~m.ok THEN CommandFails(pc, cmdString, "", <<>>, "TypeError")
  ELSE Switch(pc, cmdString, m.m1, CommandParameters(m.m2))

\* onCompleteCommand(cmdString) (l.106-325).  Once the subscriber has been
\* given an error it is stopped: later calls deliver nothing, so the state
\* is left as it is.
OnCompleteCommand(pc, cmdString) ==
  IF pc.status # "open" THEN pc
  ELSE Matched(pc, cmdString, CmdMatch(cmdString))

\* str = str.slice(match[0].length)
DropPrefix(pc, n, before) == [pc EXCEPT !.prefix = SubSeq(before, n + 1, Len(before))]

\* the loop of the chunk handler (l.330-335): parse every command that is
\* followed by another command letter; pc.prefix is the text not yet parsed
RECURSIVE TokenLoop(_)
TokenLoop(pc) ==
  LET m == TokenMatch(pc.prefix)
  IN  IF ~m.ok THEN pc
      ELSE TokenLoop(DropPrefix(OnCompleteCommand(pc, m.m0), m.len0, pc.prefix))

\* a chunk handler without the prefix: each chunk is tokenized on its own
PathCommandsNextNoPrefix(pc, chunk) == TokenLoop([pc EXCEPT !.prefix = chunk])

\* the chunk handler of pathCommands (l.328-337)
PathCommandsNext(pc, chunk) == TokenLoop([pc EXCEPT !.prefix = @ \o chunk])

\* subscriber.complete()
CompleteIfOpen(s) == IF s.status = "open" THEN [s EXCEPT !.status = "complete"] ELSE s

\* the completion handler of pathCommands (l.339-344)
PathCommandsComplete(pc) ==
  CompleteIfOpen(IF HasNonSpace(pc.prefix) THEN OnCompleteCommand(pc, pc.prefix) ELSE pc)

\* pathCommands(startPoint, input) at subscription (l.102-104, l.326)
PathCommandsInit(startPoint) ==
  [lastPoint |-> startPoint, qMirror |-> startPoint, cMirror |-> startPoint,
   prefix |-> <<>>, segs |-> <<>>, status |-> "open", log |-> <<>>]

\* pathCommands(startPoint, of(commandStr)): one chunk, then completion
PathCommands(startPoint, commandStr) ==
  PathCommandsComplete(PathCommandsNext(PathCommandsInit(startPoint), commandStr))

-----------------------------------------------------------------------------
(* fromSVGPathData (index.ts l.384-416) over splitSubPathStrings            *)
(* (l.349-382).  fs is the state of one subscription:                      *)
(*   [str, lastPoint, out, status, handed, cmdLog].                        *)

RECURSIVE JoinNumbers(_)
\* numbers.join(' ')
JoinNumbers(ns) ==
  IF ns = <<>> THEN <<>>
  ELSE IF Len(ns) = 1 THEN NumToStr(ns[1])
  ELSE NumToStr(ns[1]) \o <<" ">> \o JoinNumbers(Tail(ns))

\* The subscription ends with an error notification (a throw in the project
\* function or in map, or an error of pathCommands); the command log of the
\* subpath is recorded.
Failed(fs, lp, log) ==
  [fs EXCEPT !.status = "error", !.lastPoint = lp, !.cmdLog = Append(@, log)]

\* a collection that delivers the segments parsed before the failure
CollectedPartial(fs, closed, startPoint, pc) ==
  IF pc.segs = <<>> THEN Failed(fs, startPoint, pc.log)
  ELSE [fs EXCEPT
          !.status = IF pc.status = "error" THEN "error" ELSE @,
          !.lastPoint = pc.segs[Len(pc.segs)].toPoint,
          !.cmdLog = Append(@, pc.log),
          !.out = Append(@, [closed |-> closed, startPoint |-> startPoint,
                             commands |-> pc.segs])]

\* toArray and map (l.406-411): the SubPath of the segments pc emitted;
\* commands[commands.length-1].toPoint throws for an empty array
Collected(fs, closed, startPoint, pc) ==
  IF pc.status = "error" THEN Failed(fs, startPoint, pc.log)
  ELSE IF pc.segs = <<>> THEN Failed(fs, startPoint, pc.log)
  ELSE [fs EXCEPT
          !.lastPoint = pc.segs[Len(pc.segs)].toPoint,
          !.cmdLog = Append(@, pc.log),
          !.out = Append(@, [closed |-> closed, startPoint |-> startPoint,
                             commands |-> pc.segs])]

\* a move that takes every first pair as absolute
MovePointAbs(code, lp, moveParams) == Pt(moveParams[1], moveParams[2])

\* l.395-399: the start point of the subpath
MovePoint(code, lp, moveParams) ==
  IF code = "m"
  THEN Pt(Add(lp.x, moveParams[1]), Add(lp.y, moveParams[2]))
  ELSE Pt(moveParams[1], moveParams[2])

\* an implicit line that is absolute after m as well
CommandStrAbs(code, moveParams, rest) ==
  IF Len(moveParams) > 2
  THEN <<"L">> \o JoinNumbers(SubSeq(moveParams, 3, Len(moveParams)))
       \o <<" ">> \o rest
  ELSE rest

\* l.400-403: the command text, with the implicit line of a longer move
CommandStr(code, moveParams, rest) ==
  IF Len(moveParams) > 2
  THEN <<IF code = "m" THEN "l" ELSE "L">>
       \o JoinNumbers(SubSeq(moveParams, 3, Len(moveParams)))
       \o <<" ">> \o rest
  ELSE rest

\* l.392-412, given the move parameters
Moved(fs, m, moveParams) ==
  IF Len(moveParams) < 2 \/ Len(moveParams) % 2 # 0
  THEN Failed(fs, fs.lastPoint, <<>>)
  ELSE Collected(fs, m.m4, MovePoint(m.m1, fs.lastPoint, moveParams),
                 PathCommands(MovePoint(m.m1, fs.lastPoint, moveParams),
                              CommandStr(m.m1, moveParams, m.m3)))

\* l.390-391: a null match makes match[2] throw a TypeError
SubPathParsed(fs, m) ==
  IF ~m.ok THEN Failed(fs, fs.lastPoint, <<>>)
  ELSE Moved(fs, m, MapParseFloat(SplitParams(Trim(m.m2))))

\* The project function of concatMap with toArray and map (l.389-413), run
\* for the string s that the splitter passes to subscriber.next.  A stopped
\* subscriber (status not "open") ignores the value.
Project(fs, s) ==
  IF fs.status # "open" THEN fs
  ELSE SubPathParsed([fs EXCEPT !.handed = Append(@, s)], SubPathMatch(s))

\* str = str.slice(match[0].length)
DropStr(fs, n, before) == [fs EXCEPT !.str = SubSeq(before, n + 1, Len(before))]

RECURSIVE SplitLoopUnchecked(_)
\* the loop without the test of l.360-363: whatever precedes a move letter is handed over
SplitLoopUnchecked(fs) ==
  LET m == SplitMatchNext(fs.str)
  IN  IF ~m.ok THEN fs
      ELSE SplitLoopUnchecked(DropStr(Project(fs, m.m1), m.len0, fs.str))

\* the loop of the splitter's chunk handler (l.355-366)
RECURSIVE SplitLoop(_)
SplitLoop(fs) ==
  LET m == SplitMatchNext(fs.str)
  IN  IF ~m.ok THEN fs
      ELSE IF m.m1[1] \notin {"m", "M"}
      THEN IF fs.status = "open" THEN [fs EXCEPT !.status = "error"] ELSE fs
      ELSE SplitLoop(DropStr(Project(fs, m.m1), m.len0, fs.str))

\* a chunk handler without the buffer: each chunk is split on its own
SplitterNextNoBuffer(fs, chunk) == SplitLoop([fs EXCEPT !.str = chunk])

\* the splitter's chunk handler (l.353-367)
SplitterNext(fs, chunk) == SplitLoop([fs EXCEPT !.str = @ \o chunk])

\* l.370-377: the rest of the buffer at completion
SplitLast(fs, m) ==
  IF ~m.ok THEN fs
  ELSE IF m.m1[1] \notin {"m", "M"} THEN [fs EXCEPT !.status = "error"]
  ELSE Project(fs, m.m1)

\* the splitter's completion handler (l.369-379)
SplitterComplete(fs) == CompleteIfOpen(SplitLast(fs, SplitMatchEnd(fs.str)))

\* a fresh subscription (l.351, l.386)
FsInit ==
  [str |-> <<>>, lastPoint |-> Pt(Num(0), Num(0)), out |-> <<>>,
   status |-> "open", handed |-> <<>>, cmdLog |-> <<>>]

RECURSIVE SplitterFeed(_, _)
SplitterFeed(fs, chunks) ==
  IF chunks = <<>> \/ fs.status # "open" THEN fs
  ELSE SplitterFeed(SplitterNext(fs, Head(chunks)), Tail(chunks))

\* the source completes unless the subscription has ended
SourceComplete(fs) == IF fs.status = "open" THEN SplitterComplete(fs) ELSE fs

\* fromSVGPathData over a source that delivers the chunks and completes
FromSVGPathData(chunks) == SourceComplete(SplitterFeed(FsInit, chunks))

-----------------------------------------------------------------------------
(* toSVGPathData (index.ts l.60-99).                                        *)

PointToStr(p) == NumToStr(p.x) \o <<",">> \o NumToStr(p.y)

\* pathCommandToString (l.60-78)
PathCommandToString(cmd) ==
  LET p == PointToStr(cmd.toPoint)
      flag(name) == IF Flag(cmd, name) THEN <<"1">> ELSE <<"0">>
  IN  CASE cmd.type = "L" -> <<"L">> \o p
        [] cmd.type = "Q" -> <<"Q">> \o PointToStr(cmd.controlPoints[1]) \o <<" ">> \o p
        [] cmd.type = "C" -> <<"C">> \o PointToStr(cmd.controlPoints[1]) \o <<" ">>
                             \o PointToStr(cmd.controlPoints[2]) \o <<" ">> \o p
        [] cmd.type = "A" -> <<"A">> \o NumToStr(cmd.radiusX) \o <<" ">>
                             \o NumToStr(cmd.radiusY) \o <<" ">>
                             \o NumToStr(cmd.rotateDegrees) \o <<" ">>
                             \o flag("largeArcFlag") \o <<" ">>
                             \o flag("sweepFlag") \o <<" ">> \o p

\* a serializer that closes every subpath
SubPathFragmentsAllClosed(subPath) ==
  IF "svgPathData" \in DOMAIN subPath THEN <<subPath.svgPathData>>
  ELSE <<<<"M">> \o PointToStr(subPath.startPoint)>>
       \o [i \in 1..Len(subPath.commands) |-> PathCommandToString(subPath.commands[i])]
       \o <<<<"Z">>>>

\* a serializer that ignores the cached text
SubPathFragmentsNoCache(subPath) ==
  <<<<"M">> \o PointToStr(subPath.startPoint)>>
  \o [i \in 1..Len(subPath.commands) |-> PathCommandToString(subPath.commands[i])]
  \o (IF Flag(subPath, "closed") THEN <<<<"Z">>>> ELSE <<>>)

\* the fragments the inner observable of one SubPath emits (l.82-95)
SubPathFragments(subPath) ==
  IF "svgPathData" \in DOMAIN subPath THEN <<subPath.svgPathData>>
  ELSE <<<<"M">> \o PointToStr(subPath.startPoint)>>
       \o [i \in 1..Len(subPath.commands) |-> PathCommandToString(subPath.commands[i])]
       \o (IF Flag(subPath, "closed") THEN <<<<"Z">>>> ELSE <<>>)

\* l.84-87: from(subPath.commands) is subscribed to only without cached text
CommandsSubscribed(subPath) == "svgPathData" \notin DOMAIN subPath

\* toSVGPathData over an array of SubPaths with array commands: map and
\* concatAll give the fragments of each SubPath in turn (l.80-99)
RECURSIVE ToSVGPathData(_)
ToSVGPathData(subPaths) ==
  IF subPaths = <<>> THEN <<>>
  ELSE SubPathFragments(Head(subPaths)) \o ToSVGPathData(Tail(subPaths))

-----------------------------------------------------------------------------
(* The documents of the model.                                             *)

MaxFrags == 3   \* pieces per document under Spec
MaxCmds == 2    \* commands after the move directive under SpecCmd

\* "M0,0L3,4", "m1,2 l-1,5": a move directive and one drawing command
GoodSubPaths ==
  {<<"M","0",",","0","L","3",",","4">>,
   <<"m","1",",","2"," ","l","-","1",",","5">>}

\* "Z", "z ": a close directive
CloseFrags ==
  {<<"Z">>,
   <<"z"," ">>}

\* also: "M10 2 3 4 ", " ", "L3,4", "M5", "M7,7"
SplitFrags ==
  GoodSubPaths \cup CloseFrags \cup
  {<<"M","1","0"," ","2"," ","3"," ","4"," ">>,
   <<" ">>,
   <<"L","3",",","4">>,
   <<"M","5">>,
   <<"M","7",",","7">>}

\* "M1,2", "m3,1 ": the move directive of a command document
MoveFrags ==
  {<<"M","1",",","2">>,
   <<"m","3",",","1"," ">>}

\* one command each: every command letter with one or two parameter groups,
\* wrong parameter counts, unknown letters, tokens that are no numbers
CmdFrags ==
  {<<"L","3",",","4">>,
   <<"l","1",",","-","2"," ","2",",","1">>,
   <<"H","6">>,
   <<"h","-","1"," ","2">>,
   <<"V","3"," ","1">>,
   <<"v","2">>,
   <<"Q","1",",","1"," ","2",",","3">>,
   <<"q","1",",","0"," ","2",",","2"," ","1",",","1"," ","3",",","0">>,
   <<"T","4",",","4"," ","5",",","5">>,
   <<"t","1",",","2"," ","2",",","1">>,
   <<"C","0",",","1"," ","2",",","3"," ","4",",","5">>,
   <<"c","1",",","1"," ","2",",","2"," ","3",",","3"," ","1",",","0"," ","0",",","1"," ","2",",","2">>,
   <<"S","1",",","2"," ","3",",","4">>,
   <<"s","1",",","1"," ","2",",","2"," ","0",",","1"," ","1",",","0">>,
   <<"A","1"," ","2"," ","0"," ","0"," ","1"," ","5",",","6">>,
   <<"a","1"," ","1"," ","9"," ","1"," ","0"," ","2",",","2">>,
   <<"L","1"," ","2"," ","3">>,
   <<"l">>,
   <<"H">>,
   <<"v">>,
   <<"Q","1"," ","2"," ","3">>,
   <<"T","1">>,
   <<"C","1",",","2">>,
   <<"s","1">>,
   <<"A","1">>,
   <<"X">>,
   <<"b","1">>,
   <<"L","1",",",",","2"," ","3">>,
   <<"T","-",",","2">>}

\* whole documents: move directives alone and with implicit lines, and the
\* scenarios "M0,0 L100,100 l50,25", "M0,0 Q65,75 90,110 T200,300",
\* "M0,0 L1", "M0,0L100,100Z"
ScenarioDocs ==
  {<<"M">>,
   <<"M","5">>,
   <<"M","1",",","2",",","3">>,
   <<"M","1",",","2"," ","3",",","4">>,
   <<"m","1",",","2"," ","3",",","4"," ","5",",","6","L","3",",","4">>,
   <<"M","0",",","0"," ","L","1","0","0",",","1","0","0"," ","l","5","0",",","2","5">>,
   <<"M","0",",","0"," ","Q","6","5",",","7","5"," ","9","0",",","1","1","0"," ","T","2","0","0",",","3","0","0">>,
   <<"M","0",",","0"," ","L","1">>,
   <<"M","0",",","0","L","1","0","0",",","1","0","0","Z">>}

TQuadraticScenario == <<"M","0",",","0"," ","Q","6","5",",","7","5"," ","9","0",",","1","1","0"," ","T","2","0","0",",","3","0","0">>

RECURSIVE SeqsUpTo(_, _)
\* the sequences of at most k members of set
SeqsUpTo(set, k) ==
  IF k = 0 THEN {<<>>}
  ELSE LET shorter == SeqsUpTo(set, k - 1)
       IN  shorter \cup {Append(q, x) : q \in shorter, x \in set}

SplitParts == SeqsUpTo(SplitFrags, MaxFrags)

\* subpath texts whose move directives are absolute or relative, with one
\* or more coordinate pairs:
\* "M1,2 3,4 ", "m1,2 3,4 5,6L7,7", "m2,1 -1,3 l1,1 ", "M0,5 1,1h2", "m3,3L1,0", "M4,4l1,2"
MoveSubPaths ==
  {<<"M","1",",","2"," ","3",",","4"," ">>,
   <<"m","1",",","2"," ","3",",","4"," ","5",",","6","L","7",",","7">>,
   <<"m","2",",","1"," ","-","1",",","3"," ","l","1",",","1"," ">>,
   <<"M","0",",","5"," ","1",",","1","h","2">>,
   <<"m","3",",","3","L","1",",","0">>,
   <<"M","4",",","4","l","1",",","2">>}

\* documents of up to MaxFrags such subpaths
MoveParts == SeqsUpTo(MoveSubPaths, MaxFrags) \ {<<>>}

\* subpath texts that parse and that fail: "M0,0L3,4", "m1,2 l-1,5",
\* "M2,2L3,3Z" (closed), "M5" (one move parameter), "M1,1X" (unknown
\* letter), "M1,1L1" (one line parameter), "L3,4" (no move directive)
TerminalSubPaths ==
  {<<"M","0",",","0","L","3",",","4">>,
   <<"m","1",",","2"," ","l","-","1",",","5">>,
   <<"M","2",",","2","L","3",",","3","Z">>,
   <<"M","5">>,
   <<"M","1",",","1","X">>,
   <<"M","1",",","1","L","1">>,
   <<"L","3",",","4">>}

\* documents of up to MaxFrags such subpaths; text without a move directive
\* is a subpath of its own only at the start of a document
TerminalParts ==
  {q \in SeqsUpTo(TerminalSubPaths, MaxFrags) \ {<<>>} :
     \A i \in 2..Len(q) : q[i][1] \in {"m", "M"}}

CmdParts ==
  {<<m>> \o q : m \in MoveFrags, q \in SeqsUpTo(CmdFrags, MaxCmds) \ {<<>>}}
  \cup {<<d>> : d \in ScenarioDocs}

-----------------------------------------------------------------------------
(* The state machine: a source delivers doc in chunks to fromSVGPathData   *)
(* and completes; the consumer collects the notifications.                 *)

Fs ==
  [str |-> str, lastPoint |-> lastPoint, out |-> out, status |-> status,
   handed |-> handed, cmdLog |-> cmdLog]

Becomes(fs) ==
  /\ str' = fs.str
  /\ lastPoint' = fs.lastPoint
  /\ out' = fs.out
  /\ status' = fs.status
  /\ handed' = fs.handed
  /\ cmdLog' = fs.cmdLog

\* no pathCommands subscription is fed in chunks
NoTokenizer ==
  [startPoint |-> Pt(Num(0), Num(0)), pc |-> PathCommandsInit(Pt(Num(0), Num(0)))]

\* no command received, no current point yet; the commands of a SubPath are
\* an array, which from delivers synchronously, and the consumer is subscribed
NoCommands == [lastPoint |-> [x |-> [nan |-> FALSE, v |-> 0], y |-> [nan |-> FALSE, v |-> 0]],
               k |-> 0, log |-> <<>>,
               sync |-> TRUE, unsubscribed |-> FALSE, kAt |-> 0, nAt |-> 0]

\* no operator on SubPaths is subscribed
OperatorIdle ==
  /\ input = <<>>
  /\ taken = 0
  /\ delivered = <<>>
  /\ opStatus = "idle"
  /\ consumed = {}
  /\ opState = NoCommands

InitWith(ps, oneChunk) ==
  /\ OperatorIdle
  /\ earlier = <<>>
  /\ tokenizer = NoTokenizer
  /\ parts \in ps
  /\ doc = Flatten(parts)
  /\ whole = oneChunk
  /\ pos = 0
  /\ cutInNumber = FALSE
  /\ str = FsInit.str
  /\ lastPoint = FsInit.lastPoint
  /\ out = FsInit.out
  /\ status = FsInit.status
  /\ handed = FsInit.handed
  /\ cmdLog = FsInit.cmdLog

Init == InitWith(SplitParts, FALSE)

InitCmd == InitWith(CmdParts, TRUE)

\* The source delivers the next chunk, of n characters: of(doc) delivers the
\* whole text at once, any other source cuts it anywhere (n = 0: an empty chunk).
Chunk ==
  /\ status = "open"
  /\ \E n \in 0..(Len(doc) - pos) :
       /\ whole => pos = 0 /\ n = Len(doc) /\ n > 0
       /\ pos' = pos + n
       /\ cutInNumber' = (cutInNumber \/ (/\ pos + n > 0
                                          /\ pos + n < Len(doc)
                                          /\ IsDigit(doc[pos + n])
                                          /\ IsDigit(doc[pos + n + 1])))
       /\ Becomes(SplitterNext(Fs, SubSeq(doc, pos + 1, pos + n)))
  /\ UNCHANGED <<earlier, tokenizer, parts, doc, whole, input, taken, delivered, opStatus, consumed, opState>>

\* The source completes after its last chunk.
Complete ==
  /\ status = "open"
  /\ pos = Len(doc)
  /\ Becomes(SplitterComplete(Fs))
  /\ UNCHANGED <<earlier, tokenizer, parts, doc, whole, pos, cutInNumber, input, taken, delivered, opStatus, consumed, opState>>

Next == Chunk \/ Complete

Spec == Init /\ [][Next]_vars

SpecCmd == InitCmd /\ [][Next]_vars

\* documents of several subpaths, each opened by a move directive, as one chunk
InitMove == InitWith(MoveParts, TRUE)

SpecMove == InitMove /\ [][Next]_vars

\* documents with subpaths that fail, in chunks
InitTerminal == InitWith(TerminalParts, FALSE)

SpecTerminal == InitTerminal /\ [][Next]_vars

MaxSubscriptions == 2   \* subscriptions to one observable under SpecAgain

\* The consumer subscribes once more to the observable that fromSVGPathData()
\* returned for the source, after the subscription before has ended.  The
\* source delivers the document anew and splitSubPathStrings starts with an
\* empty buffer (l.351).  lastPoint was set to {0,0} when the operator was
\* applied to the source (l.385-386), outside of what runs per subscription
\* (l.387-413): it keeps the value the subscription before left in it.
SubscribeAgain ==
  /\ status # "open"
  /\ Len(earlier) + 1 < MaxSubscriptions
  /\ earlier' = Append(earlier, [out |-> out, status |-> status])
  /\ pos' = 0
  /\ str' = FsInit.str
  /\ out' = FsInit.out
  /\ status' = FsInit.status
  /\ handed' = FsInit.handed
  /\ cmdLog' = FsInit.cmdLog
  /\ UNCHANGED <<tokenizer, parts, doc, whole, cutInNumber, lastPoint,
                 input, taken, delivered, opStatus, consumed, opState>>

NextAgain == Chunk \/ Complete \/ SubscribeAgain

\* documents of subpaths with absolute and relative moves, as one chunk,
\* subscribed to up to MaxSubscriptions times
SpecAgain == InitMove /\ [][NextAgain]_vars

MaxTokens == 2   \* commands per command text under SpecTokens

\* one command each, as fromSVGPathData cuts them out of a subpath: "L3,4",
\* " l1,-2 20,15", "H16 ", "Q1,1 2,3", "T4,4 5,5", "s1,1 2,2 ", "A1", "X7"
TokenFrags ==
  {<<"L","3",",","4">>,
   <<" ","l","1",",","-","2"," ","2","0",",","1","5">>,
   <<"H","1","6"," ">>,
   <<"Q","1",",","1"," ","2",",","3">>,
   <<"T","4",",","4"," ","5",",","5">>,
   <<"s","1",",","1"," ","2",",","2"," ">>,
   <<"A","1">>,
   <<"X","7">>}

\* command texts of up to MaxTokens commands; the text fromSVGPathData
\* passes on is empty or starts with a command letter (l.390, l.400-403)
TokenParts ==
  {q \in SeqsUpTo(TokenFrags, MaxTokens) : q # <<>> => q[1][1] \in CmdLetters}

\* pathCommands subscribed to a source that delivers a command text in chunks
InitTokens ==
  /\ OperatorIdle
  /\ earlier = <<>>
  /\ parts \in TokenParts
  /\ doc = Flatten(parts)
  /\ whole = FALSE
  /\ pos = 0
  /\ cutInNumber = FALSE
  /\ str = FsInit.str
  /\ lastPoint = FsInit.lastPoint
  /\ out = FsInit.out
  /\ status = FsInit.status
  /\ handed = FsInit.handed
  /\ cmdLog = FsInit.cmdLog
  /\ \E p \in {Pt(Num(0), Num(0)), Pt(Num(1), Num(2))} :
       tokenizer = [startPoint |-> p, pc |-> PathCommandsInit(p)]

\* the source delivers the next chunk, of n characters, to the chunk handler
\* of pathCommands (l.328-337)
TokenChunk ==
  /\ tokenizer.pc.status = "open"
  /\ \E n \in 0..(Len(doc) - pos) :
       /\ pos' = pos + n
       /\ cutInNumber' = (cutInNumber \/ (/\ pos + n > 0
                                          /\ pos + n < Len(doc)
                                          /\ IsDigit(doc[pos + n])
                                          /\ IsDigit(doc[pos + n + 1])))
       /\ tokenizer' = [tokenizer EXCEPT
                          !.pc = PathCommandsNext(@, SubSeq(doc, pos + 1, pos + n))]
  /\ UNCHANGED <<earlier, parts, doc, whole, str, lastPoint, out, status, handed, cmdLog,
                 input, taken, delivered, opStatus, consumed, opState>>

\* the source completes after its last chunk (l.339-344)
TokenComplete ==
  /\ tokenizer.pc.status = "open"
  /\ pos = Len(doc)
  /\ tokenizer' = [tokenizer EXCEPT !.pc = PathCommandsComplete(@)]
  /\ UNCHANGED <<earlier, parts, doc, whole, pos, cutInNumber, str, lastPoint, out, status,
                 handed, cmdLog, input, taken, delivered, opStatus, consumed, opState>>

NextTokens == TokenChunk \/ TokenComplete

SpecTokens == InitTokens /\ [][NextTokens]_vars

Done == status # "open"

-----------------------------------------------------------------------------
(* Operators on SubPaths: a source delivers the SubPaths of input, one     *)
(* after the other, and completes; the consumer collects what the operator *)
(* delivers.  The commands of every SubPath are an array.                  *)

MaxSubPaths == 2   \* SubPaths per source

\* the parser is not subscribed
ParserIdle ==
  /\ earlier = <<>>
  /\ tokenizer = NoTokenizer
  /\ parts = <<>>
  /\ doc = <<>>
  /\ whole = TRUE
  /\ pos = 0
  /\ cutInNumber = FALSE
  /\ str = FsInit.str
  /\ lastPoint = FsInit.lastPoint
  /\ out = FsInit.out
  /\ status = FsInit.status
  /\ handed = FsInit.handed
  /\ cmdLog = FsInit.cmdLog

\* an operator subscribed to a source of up to MaxSubPaths members of set
InitOperator(set) ==
  /\ ParserIdle
  /\ input \in SeqsUpTo(set, MaxSubPaths)
  /\ taken = 0
  /\ delivered = <<>>
  /\ opStatus = "open"
  /\ consumed = {}
  /\ opState = NoCommands

\* the source completes after its last item; the operator passes it on
OperatorComplete ==
  /\ opStatus = "open"
  /\ taken = Len(input)
  /\ opStatus' = "complete"
  /\ UNCHANGED <<earlier, tokenizer, parts, doc, whole, pos, cutInNumber, str, lastPoint, out, status,
                 handed, cmdLog, input, taken, delivered, consumed, opState>>

\* The SubPaths of the toSVGPathData test (index.test.ts l.129-154, l.166-171)
\* and further ones: cached text beside segments and closed, a closed
\* SubPath without segments, negative numbers, an Arc with one flag.
SvgSubPaths ==
  {[startPoint |-> Pt(Num(50), Num(25)), closed |-> TRUE,
    commands |-> <<Line(Pt(Num(100), Num(10)))>>],
   [startPoint |-> Pt(Num(150), Num(25)), closed |-> FALSE,
    commands |-> <<QuadraticCurve(Pt(Num(155), Num(50)), Pt(Num(200), Num(45))),
                   CubicCurve(Pt(Num(205), Num(40)), Pt(Num(210), Num(35)),
                              Pt(Num(220), Num(0)))>>],
   [startPoint |-> Pt(Num(250), Num(25)),
    commands |-> <<ArcNoFlags(Num(100), Num(100), Num(0), Pt(Num(300), Num(250)))>>],
   [startPoint |-> Pt(Num(250), Num(25)),
    commands |-> <<Arc(Num(100), Num(100), Num(0), TRUE, TRUE, Pt(Num(300), Num(250)))>>],
   [startPoint |-> Pt(Num(0), Num(0)), closed |-> FALSE, commands |-> <<>>,
    svgPathData |-> <<"M","1","0","0",",","1","0","0","L","2","0","0",",","1","0","0","Z">>],
   [startPoint |-> Pt(Num(1), Num(2)), closed |-> TRUE,
    commands |-> <<Line(Pt(Num(3), Num(4)))>>,
    svgPathData |-> <<"m","1"," ","1","h","2">>],
   [startPoint |-> Pt(Num(5), Num(5)), closed |-> TRUE, commands |-> <<>>],
   [startPoint |-> Pt(Num(-1), Num(2)), closed |-> FALSE,
    commands |-> <<Line(Pt(Num(-3), Num(-4))),
                   Arc(Num(1), Num(2), Num(30), TRUE, FALSE, Pt(Num(0), Num(-7)))>>]}

InitSvg == InitOperator(SvgSubPaths)

\* toSVGPathData receives the next SubPath (l.82-97): map gives its inner
\* observable, concatAll subscribes to it and passes its fragments on
ToSVGPathDataNext ==
  /\ opStatus = "open"
  /\ taken < Len(input)
  /\ taken' = taken + 1
  /\ delivered' = delivered \o SubPathFragments(input[taken + 1])
  /\ consumed' = IF CommandsSubscribed(input[taken + 1])
                 THEN consumed \cup {taken + 1} ELSE consumed
  /\ UNCHANGED <<earlier, tokenizer, parts, doc, whole, pos, cutInNumber, str, lastPoint, out, status,
                 handed, cmdLog, input, opStatus, opState>>

NextSvg == ToSVGPathDataNext \/ OperatorComplete

SpecSvg == InitSvg /\ [][NextSvg]_vars

\* toSVGPathData when the commands of a SubPath may be an observable that
\* delivers later (commands is an ObservableInput, l.55).  concatAll
\* (l.97) subscribes to the inner observable of a SubPath when no other one
\* is subscribed, and keeps it waiting otherwise.  The state in opState:
\*   async      the SubPaths whose commands deliver later
\*   inner[i]   "none" (SubPath i not received), "waiting", "active"
\*              (subscribed, not completed) or "done"
\*   k[i]       the number of commands of SubPath i serialized
\*   outerDone  the source of SubPaths has completed
\*   waited     history: a SubPath arrived while another one was active
\*   log        history: for each fragment delivered, the SubPath it is of
SvgAsyncSubPaths ==
  {sp \in SvgSubPaths : \A n \in 1..Len(sp.commands) : sp.commands[n].type # "A"}

InitSvgAsync ==
  /\ ParserIdle
  /\ input \in SeqsUpTo(SvgAsyncSubPaths, MaxSubPaths)
  /\ taken = 0
  /\ delivered = <<>>
  /\ opStatus = "open"
  /\ consumed = {}
  /\ \E a \in SUBSET (1..Len(input)) :
       opState = [async |-> a,
                  inner |-> [i \in 1..Len(input) |-> "none"],
                  k |-> [i \in 1..Len(input) |-> 0],
                  outerDone |-> FALSE, waited |-> FALSE, log |-> <<>>]

\* what the operators below work on: the inner subscriptions and what the
\* consumer has been given
SvgNow ==
  [inner |-> opState.inner, k |-> opState.k, out |-> delivered, log |-> opState.log,
   consumed |-> consumed]

\* subscriber.next of the inner observable of SubPath i, passed on by concatAll
PassOn(st, i, frags) ==
  [st EXCEPT !.out = @ \o frags, !.log = @ \o [n \in 1..Len(frags) |-> i]]

\* concatAll subscribes to the inner observable of SubPath i (l.83-95):
\* cached text and the fragments of an array of commands are delivered
\* within the subscription; commands that deliver later leave it active
\* after the M fragment
SubscribeInner(st, i, async) ==
  IF "svgPathData" \in DOMAIN input[i]
  THEN [PassOn(st, i, SubPathFragments(input[i])) EXCEPT !.inner[i] = "done"]
  ELSE IF i \notin async
  THEN [PassOn(st, i, SubPathFragments(input[i])) EXCEPT
          !.inner[i] = "done",
          !.k[i] = Len(input[i].commands),
          !.consumed = @ \cup {i}]
  ELSE [PassOn(st, i, <<<<"M">> \o PointToStr(input[i].startPoint)>>) EXCEPT
          !.inner[i] = "active",
          !.consumed = @ \cup {i}]

\* a mergeAll without limit: every inner observable is subscribed to at once
MayStartAlways(active) == TRUE

\* concatAll is mergeAll(1): the next inner observable is subscribed to
\* when none is active (l.97)
MayStart(active) == active = {}

\* the first of a set of numbers
First(set) == CHOOSE i \in set : \A j \in set : i <= j

RECURSIVE StartWaiting(_, _)
\* concatAll subscribes to the waiting inner observables, in order, while it may
StartWaiting(st, async) ==
  LET waiting == {i \in DOMAIN st.inner : st.inner[i] = "waiting"}
      active == {i \in DOMAIN st.inner : st.inner[i] = "active"}
  IN  IF waiting = {} \/ ~MayStart(active) THEN st
      ELSE StartWaiting(SubscribeInner(st, First(waiting), async), async)

\* every inner observable has completed and the source has
SvgFinished(st, outerDone) ==
  outerDone /\ \A i \in DOMAIN st.inner : st.inner[i] = "done"

SvgBecomes(st, outerDone, waited) ==
  /\ delivered' = st.out
  /\ consumed' = st.consumed
  /\ opState' = [opState EXCEPT !.inner = st.inner, !.k = st.k, !.log = st.log,
                                !.outerDone = outerDone, !.waited = waited]
  /\ opStatus' = IF SvgFinished(st, outerDone) THEN "complete" ELSE opStatus

\* the source delivers the next SubPath: map gives its inner observable to
\* concatAll (l.82-97)
SvgOuterNext ==
  /\ opStatus = "open"
  /\ ~opState.outerDone
  /\ taken < Len(input)
  /\ taken' = taken + 1
  /\ SvgBecomes(StartWaiting([SvgNow EXCEPT !.inner[taken + 1] = "waiting"], opState.async),
                FALSE,
                opState.waited \/ \E i \in 1..taken : opState.inner[i] = "active")
  /\ UNCHANGED <<earlier, tokenizer, parts, doc, whole, pos, cutInNumber, str, lastPoint, out, status,
                 handed, cmdLog, input>>

\* the commands of an active SubPath deliver the next command (l.89)
SvgInnerNext ==
  /\ opStatus = "open"
  /\ \E i \in 1..taken :
       /\ opState.inner[i] = "active"
       /\ opState.k[i] < Len(input[i].commands)
       /\ SvgBecomes([PassOn(SvgNow, i,
                             <<PathCommandToString(input[i].commands[opState.k[i] + 1])>>)
                        EXCEPT !.k[i] = @ + 1],
                     opState.outerDone, opState.waited)
  /\ UNCHANGED <<earlier, tokenizer, parts, doc, whole, pos, cutInNumber, str, lastPoint, out, status,
                 handed, cmdLog, input, taken>>

\* the commands of an active SubPath complete (l.91-94); concatAll goes on
\* to the inner observables that wait
SvgInnerComplete ==
  /\ opStatus = "open"
  /\ \E i \in 1..taken :
       /\ opState.inner[i] = "active"
       /\ opState.k[i] = Len(input[i].commands)
       /\ SvgBecomes(StartWaiting(
                       [PassOn(SvgNow, i,
                               IF Flag(input[i], "closed") THEN <<<<"Z">>>> ELSE <<>>)
                          EXCEPT !.inner[i] = "done"],
                       opState.async),
                     opState.outerDone, opState.waited)
  /\ UNCHANGED <<earlier, tokenizer, parts, doc, whole, pos, cutInNumber, str, lastPoint, out, status,
                 handed, cmdLog, input, taken>>

\* the source of SubPaths completes
SvgOuterComplete ==
  /\ opStatus = "open"
  /\ ~opState.outerDone
  /\ taken = Len(input)
  /\ SvgBecomes(SvgNow, TRUE, opState.waited)
  /\ UNCHANGED <<earlier, tokenizer, parts, doc, whole, pos, cutInNumber, str, lastPoint, out, status,
                 handed, cmdLog, input, taken>>

NextSvgAsync == SvgOuterNext \/ SvgInnerNext \/ SvgInnerComplete \/ SvgOuterComplete

SpecSvgAsync == InitSvgAsync /\ [][NextSvgAsync]_vars

-----------------------------------------------------------------------------
(* invertSubPaths (index.ts l.432-513).                                    *)

\* a === b for numbers: NaN equals nothing
NumEq(a, b) == ~a.nan /\ ~b.nan /\ a.v = b.v

\* p.x !== q.x || p.y !== q.y
PointsDiffer(p, q) == ~NumEq(p.x, q.x) \/ ~NumEq(p.y, q.y)

\* an empty result that forgets closed
InvertEmptyOpen(subPath) ==
  [startPoint |-> subPath.startPoint, commands |-> <<>>, closed |-> FALSE]

\* l.438-440: no segment
InvertEmpty(subPath) ==
  [startPoint |-> subPath.startPoint, commands |-> <<>>,
   closed |-> Flag(subPath, "closed")]

\* an inversion that forgets the closing edge
WithoutClosingLine(subPath, commands) == commands

\* l.441-449: the closing edge of a closed subpath that does not end where it starts
WithClosingLine(subPath, commands) ==
  IF Flag(subPath, "closed")
     /\ PointsDiffer(commands[Len(commands)].toPoint, subPath.startPoint)
  THEN Append(commands, Line(subPath.startPoint))
  ELSE commands

\* commands.reverse()
Reverse(commands) == [i \in 1..Len(commands) |-> commands[Len(commands) + 1 - i]]

\* l.452-455: the extra Line pushed before the loop
WithSentinel(subPath, commands) == Append(commands, Line(subPath.startPoint))

\* a rewrite that keeps the order of the control points of a cubic
RewriteSegmentNoSwap(segment, to) ==
  CASE segment.type = "L" -> Line(to)
    [] segment.type = "C" ->
         CubicCurve(segment.controlPoints[1], segment.controlPoints[2], to)
    [] segment.type = "Q" -> QuadraticCurve(segment.controlPoints[1], to)
    [] segment.type = "A" ->
         Arc(segment.radiusX, segment.radiusY, segment.rotateDegrees,
             Flag(segment, "largeArcFlag"), ~Flag(segment, "sweepFlag"), to)

\* l.459-498: the segment that replaces commands[i], `to` being
\* commands[i+1].toPoint; largeArcFlag stays absent when it is absent
RewriteSegment(segment, to) ==
  CASE segment.type = "L" -> Line(to)
    [] segment.type = "C" ->
         CubicCurve(segment.controlPoints[2], segment.controlPoints[1], to)
    [] segment.type = "Q" -> QuadraticCurve(segment.controlPoints[1], to)
    [] segment.type = "A" ->
         IF "largeArcFlag" \in DOMAIN segment
         THEN Arc(segment.radiusX, segment.radiusY, segment.rotateDegrees,
                  segment.largeArcFlag, ~Flag(segment, "sweepFlag"), to)
         ELSE [type |-> "A", radiusX |-> segment.radiusX, radiusY |-> segment.radiusY,
               sweepFlag |-> ~Flag(segment, "sweepFlag"),
               rotateDegrees |-> segment.rotateDegrees, toPoint |-> to]

RECURSIVE RewriteLoop(_, _)
\* l.457-499: for (i = 0; i < commands.length-1; i++), in place; i counts from 1 here
RewriteLoop(commands, i) ==
  IF i >= Len(commands) THEN commands
  ELSE RewriteLoop([commands EXCEPT ![i] = RewriteSegment(@, commands[i + 1].toPoint)],
                   i + 1)

\* commands.pop()
Pop(commands) == SubSeq(commands, 1, Len(commands) - 1)

\* an inversion that keeps the Line back to the start of a closed subpath
KeepClosingLine(subPath, startPoint, commands) == commands

\* l.501-508: the Line back to the start of a closed subpath is dropped
DropClosingLine(subPath, startPoint, commands) ==
  IF Flag(subPath, "closed")
     /\ commands[Len(commands)].type = "L"
     /\ NumEq(commands[Len(commands)].toPoint.x, startPoint.x)
     /\ NumEq(commands[Len(commands)].toPoint.y, startPoint.y)
  THEN Pop(commands)
  ELSE commands

\* l.456-509, given the reversed commands with the extra Line
InvertReversed(subPath, commands) ==
  [startPoint |-> commands[1].toPoint,
   commands |-> DropClosingLine(subPath, commands[1].toPoint,
                                Pop(RewriteLoop(commands, 1))),
   closed |-> Flag(subPath, "closed")]

\* the function of map (l.436-510), commands being the array toArray gives
Invert(subPath) ==
  IF Len(subPath.commands) = 0 THEN InvertEmpty(subPath)
  ELSE InvertReversed(subPath,
         WithSentinel(subPath, Reverse(WithClosingLine(subPath, subPath.commands))))

\* The SubPaths of the invertSubPaths test (index.test.ts l.185-206) and
\* further ones: closed ones that end at their start with a Line or with a
\* curve, or elsewhere; SubPaths without closed; Arcs with and without flags.
InvertInputs ==
  {[startPoint |-> Pt(Num(100), Num(100)), commands |-> <<>>, closed |-> FALSE],
   [startPoint |-> Pt(Num(0), Num(0)), closed |-> TRUE,
    commands |-> <<Line(Pt(Num(100), Num(100))), Line(Pt(Num(0), Num(100)))>>],
   [startPoint |-> Pt(Num(0), Num(0)), closed |-> FALSE,
    commands |-> <<QuadraticCurve(Pt(Num(0), Num(100)), Pt(Num(100), Num(100))),
                   CubicCurve(Pt(Num(200), Num(0)), Pt(Num(300), Num(200)),
                              Pt(Num(400), Num(100))),
                   Arc(Num(100), Num(80), Num(15), TRUE, TRUE, Pt(Num(1000), Num(100)))>>],
   [startPoint |-> Pt(Num(5), Num(5)), commands |-> <<>>, closed |-> TRUE],
   [startPoint |-> Pt(Num(0), Num(0)), closed |-> TRUE,
    commands |-> <<Line(Pt(Num(1), Num(1))), Line(Pt(Num(0), Num(0)))>>],
   [startPoint |-> Pt(Num(0), Num(0)), closed |-> TRUE,
    commands |-> <<Line(Pt(Num(2), Num(0))),
                   QuadraticCurve(Pt(Num(2), Num(2)), Pt(Num(0), Num(0)))>>],
   [startPoint |-> Pt(Num(1), Num(1)), closed |-> TRUE,
    commands |-> <<CubicCurve(Pt(Num(1), Num(2)), Pt(Num(3), Num(2)), Pt(Num(3), Num(3))),
                   Line(Pt(Num(3), Num(1)))>>],
   [startPoint |-> Pt(Num(2), Num(3)),
    commands |-> <<Line(Pt(Num(4), Num(5)))>>],
   [startPoint |-> Pt(Num(0), Num(0)), closed |-> FALSE,
    commands |-> <<ArcNoFlags(Num(3), Num(4), Num(0), Pt(Num(6), Num(0))),
                   Line(Pt(Num(1), Num(1)))>>],
   [startPoint |-> Pt(Num(0), Num(0)), closed |-> TRUE,
    commands |-> <<Line(Pt(Num(0), Num(0)))>>],
   [startPoint |-> Pt(Num(0), Num(0)), closed |-> TRUE,
    commands |-> <<Line(Pt(Num(3), Num(3)))>>],
   [startPoint |-> Pt(Num(0), Num(0)), closed |-> TRUE,
    commands |-> <<Line(Pt(Num(0), Num(0))), Line(Pt(Num(1), Num(0))),
                   Arc(Num(1), Num(1), Num(0), FALSE, TRUE, Pt(Num(1), Num(1)))>>],
   [startPoint |-> Pt(Num(0), Num(0)), closed |-> TRUE,
    commands |-> <<Line(Pt(Num(0), Num(0))), Line(Pt(Num(1), Num(0))),
                   CubicCurve(Pt(Num(1), Num(1)), Pt(Num(2), Num(1)), Pt(Num(2), Num(2)))>>]}

InitInvert == InitOperator(InvertInputs)

\* invertSubPaths receives the next SubPath (l.434-511): concatMap
\* subscribes to its commands, toArray collects them, map inverts them
InvertSubPathsNext ==
  /\ opStatus = "open"
  /\ taken < Len(input)
  /\ taken' = taken + 1
  /\ delivered' = Append(delivered, Invert(input[taken + 1]))
  /\ consumed' = consumed \cup {taken + 1}
  /\ UNCHANGED <<earlier, tokenizer, parts, doc, whole, pos, cutInNumber, str, lastPoint, out, status,
                 handed, cmdLog, input, opStatus, opState>>

NextInvert == InvertSubPathsNext \/ OperatorComplete

SpecInvert == InitInvert /\ [][NextInvert]_vars

\* invertSubPaths over SubPaths whose commands are arrays, which push,
\* reverse, pop and the assignments to commands[i] change in place.  The
\* state in opState:
\*   objects[i]  SubPath i of the source as the caller holds it; its
\*               commands field is the number of an array
\*   arrays[r]   the elements of array number r, now
\*   results     history: the number of the array each result was given
\* input keeps what the SubPaths of the source were at the beginning.
InitInvertArrays ==
  /\ ParserIdle
  /\ input \in SeqsUpTo(InvertInputs, MaxSubPaths)
  /\ taken = 0
  /\ delivered = <<>>
  /\ opStatus = "open"
  /\ consumed = {}
  /\ opState = [objects |-> [i \in 1..Len(input) |-> [input[i] EXCEPT !.commands = i]],
                arrays |-> [i \in 1..Len(input) |-> input[i].commands],
                results |-> <<>>]

\* a toArray that hands on the array it reads from
ToArraySame(arrays, r) == [arrays |-> arrays, ref |-> r]

\* from(subPath.commands).pipe(toArray()) (l.435-436): the elements of
\* array r, collected into a new array
ToArray(arrays, r) == [arrays |-> Append(arrays, arrays[r]), ref |-> Len(arrays) + 1]

\* the SubPath an object stands for, now
Deref(object, arrays) == [object EXCEPT !.commands = arrays[object.commands]]

\* the function of map (l.437-509) on the array toArray gave: every push,
\* reverse, assignment and pop changes that array, which the result is given
InvertInPlace(object, t) ==
  [t.arrays EXCEPT ![t.ref] = Invert(Deref([object EXCEPT !.commands = t.ref], t.arrays)).commands]

\* invertSubPaths receives the next SubPath (l.434-511)
InvertArraysNext ==
  /\ opStatus = "open"
  /\ taken < Len(input)
  /\ taken' = taken + 1
  /\ LET object == opState.objects[taken + 1]
         t == ToArray(opState.arrays, object.commands)
     IN  /\ opState' = [opState EXCEPT !.arrays = InvertInPlace(object, t),
                                       !.results = Append(@, t.ref)]
         /\ delivered' = Append(delivered,
                                Invert(Deref([object EXCEPT !.commands = t.ref], t.arrays)))
  /\ consumed' = consumed \cup {taken + 1}
  /\ UNCHANGED <<earlier, tokenizer, parts, doc, whole, pos, cutInNumber, str, lastPoint, out, status,
                 handed, cmdLog, input, opStatus>>

NextInvertArrays == InvertArraysNext \/ OperatorComplete

SpecInvertArrays == InitInvertArrays /\ [][NextInvertArrays]_vars

-----------------------------------------------------------------------------
(* curvifyArcCommands and curvifySubPaths (index.ts l.552-679).            *)

\* a test that takes an Arc for degenerate only when both radii are zero
DegenerateBoth(command) ==
  NumEq(command.radiusX, Num(0)) /\ NumEq(command.radiusY, Num(0))

\* l.562: command.radiusX === 0 || command.radiusY === 0
Degenerate(command) ==
  NumEq(command.radiusX, Num(0)) \/ NumEq(command.radiusY, Num(0))

\* l.567-571: pxp === 0 && pyp === 0, where sinphi = sin(rot*PI/180),
\* cosphi = cos(rot*PI/360),
\*   pxp =  cosphi*(lastPoint.x - toPoint.x)/2 + sinphi*(lastPoint.y - toPoint.y)/2
\*   pyp = -sinphi*(lastPoint.x - toPoint.y)/2 + cosphi*(lastPoint.y - toPoint.y)/2.
\* For rotateDegrees = 0 (sinphi = 0, cosphi = 1) both vanish exactly when
\* the two points are equal.  For the other rotations of the model sinphi
\* and cosphi are not zero and no integer chord but {0,0} makes pxp vanish;
\* pyp then vanishes exactly when lastPoint.x equals toPoint.y.  With a NaN
\* among the operands pxp or pyp is NaN, which is not === 0.
ChordVanishes(lp, command) ==
  /\ ~command.rotateDegrees.nan
  /\ NumEq(lp.x, command.toPoint.x)
  /\ NumEq(lp.y, command.toPoint.y)
  /\ NumEq(command.rotateDegrees, Num(0)) \/ NumEq(lp.x, command.toPoint.y)

\* The arithmetic of l.567-659 is followed in exact arithmetic for the
\* rotations 0 and 90, where the squares of sinphi and cosphi are rational:
\*   rotateDegrees  sinphi (l.567)  cosphi (l.568)       sinphi*cosphi
\*        0            0            cos(0)  = 1               0
\*       90            1            cos(45) = sqrt(2)/2    sqrt(2)/2
\* Numbers of the form a + b*sqrt(2) are kept as the integers a and b.

\* 2 * cosphi * cosphi
CosphiSq2(rot) == CASE rot.v = 0 -> 2 [] rot.v = 90 -> 1

\* 2 * sinphi * sinphi
SinphiSq2(rot) == CASE rot.v = 0 -> 0 [] rot.v = 90 -> 2

\* sinphi * cosphi, in units of sqrt(2)/2
SinCosphi(rot) == CASE rot.v = 0 -> 0 [] rot.v = 90 -> 1

\* the sign of a + b*sqrt(2)
SignRoot2(a, b) ==
  CASE a = 0 /\ b = 0 -> 0
    [] a >= 0 /\ b >= 0 /\ (a > 0 \/ b > 0) -> 1
    [] a <= 0 /\ b <= 0 /\ (a < 0 \/ b < 0) -> -1
    [] a > 0 /\ b < 0 -> IF a * a > 2 * b * b THEN 1 ELSE -1
    [] a < 0 /\ b > 0 -> IF 2 * b * b > a * a THEN 1 ELSE -1

\* l.569-570, l.576-578: 8 * rx*rx * ry*ry * lambda as a + b*sqrt(2), from
\*   8*pxp*pxp = 2cc*dx*dx + 2ss*dy*dy + 4sc*dx*dy
\*   8*pyp*pyp = 2ss*e*e   + 2cc*dy*dy - 4sc*e*dy
\* with dx = lastPoint.x - toPoint.x, dy = lastPoint.y - toPoint.y and
\* e = lastPoint.x - toPoint.y, the difference l.570 takes
Lambda8(lp, command) ==
  LET dx == lp.x.v - command.toPoint.x.v
      dy == lp.y.v - command.toPoint.y.v
      e == lp.x.v - command.toPoint.y.v
      rxsq == command.radiusX.v * command.radiusX.v
      rysq == command.radiusY.v * command.radiusY.v
      cc == CosphiSq2(command.rotateDegrees)
      ss == SinphiSq2(command.rotateDegrees)
      sc == SinCosphi(command.rotateDegrees)
  IN [a |-> rysq * (cc * dx * dx + ss * dy * dy) + rxsq * (ss * e * e + cc * dy * dy),
      b |-> 2 * sc * (rysq * dx * dy - rxsq * e * dy),
      one |-> 8 * rxsq * rysq]

\* the sign of lambda - n/2, for n = 1 and n = 2
LambdaAgainst(lp, command, n) ==
  SignRoot2(Lambda8(lp, command).a - n * (Lambda8(lp, command).one \div 2),
            Lambda8(lp, command).b)

\* l.629-632 for a sweep of 360 degrees less the angle between the two
\* radius vectors: 4 cubics when the angle is below 90 degrees, else 3
SegmentsAround(lp, command) ==
  IF LambdaAgainst(lp, command, 1) < 0 THEN 4 ELSE 3

\* l.579-632: segments.  The two radius vectors (vx1, vy1) and (vx2, vy2)
\* are unit vectors with dot = 1 - 2*lambda and a cross product of the sign
\* of radicant (l.596), which is negative when largeArcFlag and sweepFlag
\* are alike.  lambda >= 1 (radii too small, l.579-583, or just enough):
\* radicant = 0, dot = -1, the cross product is 0 and counts as positive
\* (l.615), ang2 = PI, 2 cubics.  lambda < 1: ang2 = +-acos(dot) (l.617);
\* without sweepFlag a positive ang2 loses and regains 2*PI and a negative
\* one gains 2*PI (l.618-621), with sweepFlag ang2 stays as it is.  So
\* |ang2| is acos(dot), except that it is 2*PI - acos(dot) when both flags
\* are falsy; acos(dot) <= PI/2 exactly when lambda <= 1/2.
Segments(lp, command) ==
  IF LambdaAgainst(lp, command, 2) >= 0 THEN 2
  ELSE IF ~Flag(command, "sweepFlag") /\ ~Flag(command, "largeArcFlag")
       THEN SegmentsAround(lp, command)
       ELSE IF LambdaAgainst(lp, command, 1) <= 0 THEN 1 ELSE 2

\* l.596, l.614-622: the sign of ang2 when the loop starts, for lambda < 1.
\* acos(dot) is positive then and the cross product has the sign of
\* radicant: negative when largeArcFlag and sweepFlag are alike.  Without
\* sweepFlag a positive ang2 is taken below zero by l.619 and back above it
\* by l.620, whose test is no `else`; a negative one is taken above zero by
\* l.620.  With sweepFlag ang2 keeps its sign.
SweepSign(lp, command) ==
  IF ~Flag(command, "sweepFlag") THEN 1
  ELSE IF Flag(command, "largeArcFlag") THEN -1 ELSE 1

\* l.636-639, l.650-659: the toPoint of the last cubic, getPoint(x2, y2) for
\* the last ang1 + ang2, where (x2, y2) is (vx2, vy2).  With l.598-607 that is
\*   x = (lastPoint.x + toPoint.x)/2 - cosphi*pxp + sinphi*pyp
\*   y = (lastPoint.y + toPoint.y)/2 - sinphi*pxp - cosphi*pyp
\* given here as 4*x = x4 and 4*y = y4 + yroot*sqrt(2)
LastToPoint(lp, command) ==
  LET dx == lp.x.v - command.toPoint.x.v
      dy == lp.y.v - command.toPoint.y.v
      e == lp.x.v - command.toPoint.y.v
      cc == CosphiSq2(command.rotateDegrees)
      ss == SinphiSq2(command.rotateDegrees)
      sc == SinCosphi(command.rotateDegrees)
  IN [x4 |-> 2 * (lp.x.v + command.toPoint.x.v) - (cc * dx + ss * e),
      y4 |-> 2 * (lp.y.v + command.toPoint.y.v) - (cc + ss) * dy,
      yroot |-> -sc * (dx - e)]

\* l.641-663: cubic i of n.  The control points and the end points between
\* the cubics are values of cos and sin that the model does not compute;
\* they are named by their place on the ellipse.
ArcCubic(lp, command, i, n) ==
  [type |-> "C", arc |-> command, from |-> lp,
   controlPoints |-> <<[after |-> i - 1, of |-> n], [before |-> i, of |-> n]>>,
   toPoint |-> IF i = n THEN LastToPoint(lp, command) ELSE [at |-> i, of |-> n]]

\* a NaN among the numbers l.567-570 read
ArcHasNaN(lp, command) ==
  \/ command.radiusX.nan \/ command.radiusY.nan \/ command.rotateDegrees.nan
  \/ command.toPoint.x.nan \/ command.toPoint.y.nan \/ lp.x.nan \/ lp.y.nan

\* l.576-663: the CubicCurves emitted for an Arc from lp.  With a NaN among
\* its numbers ang2 and ratio are NaN, segments = Math.max(NaN, 1) is NaN
\* (l.632), i < segments is false at once (l.641) and nothing is emitted.
ArcCubics(lp, command) ==
  IF ArcHasNaN(lp, command) THEN <<>>
  ELSE [i \in 1..Segments(lp, command) |->
          ArcCubic(lp, command, i, Segments(lp, command))]

\* the handler of curvifyArcCommands for one command (l.556-666): what it
\* emits; lastPoint becomes command.toPoint on every path (l.559, 563, 572, 665)
CurvifyCommand(lp, command) ==
  IF command.type # "A" THEN <<command>>
  ELSE IF Degenerate(command) THEN <<Line(command.toPoint)>>
  ELSE IF ChordVanishes(lp, command) THEN <<Line(command.toPoint)>>
  ELSE ArcCubics(lp, command)

\* l.674-678: the SubPath curvifySubPaths delivers, before any of its
\* commands is delivered; closed is passed on as it is, absent when absent
CurvifiedSubPath(subPath) ==
  IF "closed" \in DOMAIN subPath
  THEN [startPoint |-> subPath.startPoint, commands |-> <<>>, closed |-> subPath.closed]
  ELSE [startPoint |-> subPath.startPoint, commands |-> <<>>]

\* SubPaths with Arcs: one radius zero, the other zero, both zero, with and
\* without flags and rotation, first, last and between other segments, with
\* a chord that vanishes or not; the Arc of the test (index.test.ts l.145-153);
\* a SubPath without Arcs and one without segments.
\* Arcs that become cubics: a chord shorter than, as long as and longer than
\* the diameter, each combination of flags, a negative radius, the
\* rotation 90, a radius that is NaN.
CurvifyInputs ==
  {[startPoint |-> Pt(Num(0), Num(0)), closed |-> FALSE,
    commands |-> <<Line(Pt(Num(1), Num(1))),
                   Arc(Num(0), Num(5), Num(0), FALSE, TRUE, Pt(Num(3), Num(4))),
                   Line(Pt(Num(5), Num(5)))>>],
   [startPoint |-> Pt(Num(2), Num(2)), closed |-> TRUE,
    commands |-> <<Arc(Num(5), Num(0), Num(30), TRUE, FALSE, Pt(Num(2), Num(2)))>>],
   [startPoint |-> Pt(Num(0), Num(0)),
    commands |-> <<Arc(Num(0), Num(0), Num(90), TRUE, TRUE, Pt(Num(7), Num(1))),
                   QuadraticCurve(Pt(Num(8), Num(1)), Pt(Num(8), Num(2)))>>],
   [startPoint |-> Pt(Num(1), Num(1)), closed |-> FALSE,
    commands |-> <<ArcNoFlags(Num(0), Num(3), Num(15), Pt(Num(1), Num(1)))>>],
   [startPoint |-> Pt(Num(250), Num(25)),
    commands |-> <<Arc(Num(100), Num(100), Num(0), TRUE, TRUE, Pt(Num(300), Num(250)))>>],
   [startPoint |-> Pt(Num(3), Num(3)), closed |-> FALSE,
    commands |-> <<Arc(Num(1), Num(1), Num(0), FALSE, FALSE, Pt(Num(3), Num(3)))>>],
   [startPoint |-> Pt(Num(0), Num(0)), closed |-> TRUE,
    commands |-> <<CubicCurve(Pt(Num(0), Num(1)), Pt(Num(1), Num(2)), Pt(Num(2), Num(2))),
                   Line(Pt(Num(2), Num(0)))>>],
   [startPoint |-> Pt(Num(4), Num(4)), closed |-> TRUE, commands |-> <<>>],
   [startPoint |-> Pt(Num(0), Num(0)),
    commands |-> <<Arc(Num(100), Num(100), Num(0), FALSE, FALSE, Pt(Num(50), Num(0)))>>],
   [startPoint |-> Pt(Num(0), Num(0)), closed |-> FALSE,
    commands |-> <<Arc(Num(100), Num(100), Num(0), FALSE, TRUE, Pt(Num(50), Num(0))),
                   Line(Pt(Num(60), Num(0)))>>],
   [startPoint |-> Pt(Num(0), Num(0)), closed |-> TRUE,
    commands |-> <<Line(Pt(Num(50), Num(0))),
                   Arc(Num(100), Num(100), Num(0), TRUE, TRUE, Pt(Num(0), Num(0)))>>],
   [startPoint |-> Pt(Num(0), Num(0)), closed |-> FALSE,
    commands |-> <<Arc(Num(1), Num(1), Num(0), TRUE, FALSE, Pt(Num(1), Num(1))),
                   Arc(Num(-2), Num(3), Num(0), FALSE, TRUE, Pt(Num(3), Num(2)))>>],
   [startPoint |-> Pt(Num(0), Num(0)), closed |-> FALSE,
    commands |-> <<Arc(Num(5), Num(5), Num(90), FALSE, TRUE, Pt(Num(4), Num(4))),
                   Line(Pt(Num(6), Num(6)))>>],
   [startPoint |-> Pt(Num(0), Num(0)),
    commands |-> <<ArcNoFlags(Num(3), Num(4), Num(90), Pt(Num(4), Num(0)))>>],
   [startPoint |-> Pt(Num(0), Num(0)), closed |-> FALSE,
    commands |-> <<Line(Pt(Num(1), Num(1))),
                   Arc(NaN, Num(3), Num(0), FALSE, TRUE, Pt(Num(4), Num(1))),
                   Line(Pt(Num(5), Num(5)))>>]}

InitCurvify == InitOperator(CurvifyInputs)

\* curvifySubPaths receives the next SubPath (l.674-678) and delivers its
\* counterpart; the consumer subscribes to its commands, which starts
\* curvifyArcCommands at the start point (l.554).  The consumer has drained
\* the commands of the SubPath before.
CurvifySubPathsNext ==
  /\ opStatus = "open"
  /\ taken < Len(input)
  /\ taken > 0 => opState.k = Len(input[taken].commands)
  /\ taken' = taken + 1
  /\ delivered' = Append(delivered, CurvifiedSubPath(input[taken + 1]))
  /\ consumed' = consumed \cup {taken + 1}
  /\ opState' = [opState EXCEPT !.lastPoint = input[taken + 1].startPoint, !.k = 0,
                                !.unsubscribed = FALSE, !.kAt = 0, !.nAt = 0]
  /\ UNCHANGED <<earlier, tokenizer, parts, doc, whole, pos, cutInNumber, str, lastPoint, out, status,
                 handed, cmdLog, input, opStatus>>

\* a handler that never assigns lastPoint: every Arc starts at the start point
CurvifyArcCommandsNextKeepsPoint ==
  /\ opStatus # "idle"
  /\ taken > 0
  /\ ~opState.unsubscribed
  /\ opState.k < Len(input[taken].commands)
  /\ opState' =
       [opState EXCEPT
          !.k = @ + 1,
          !.log = Append(@, [sub |-> taken,
                             command |-> input[taken].commands[opState.k + 1],
                             from |-> opState.lastPoint,
                             emitted |-> CurvifyCommand(opState.lastPoint,
                                                        input[taken].commands[opState.k + 1])])]
  /\ delivered' =
       [delivered EXCEPT ![taken].commands =
          @ \o CurvifyCommand(opState.lastPoint, input[taken].commands[opState.k + 1])]
  /\ UNCHANGED <<earlier, tokenizer, parts, doc, whole, pos, cutInNumber, str, lastPoint, out, status,
                 handed, cmdLog, input, taken, opStatus, consumed>>

\* curvifyArcCommands receives the next command of the current SubPath (l.556-666)
CurvifyArcCommandsNext ==
  /\ opStatus # "idle"
  /\ taken > 0
  /\ ~opState.unsubscribed
  /\ opState.k < Len(input[taken].commands)
  /\ opState' =
       [opState EXCEPT
          !.lastPoint = input[taken].commands[opState.k + 1].toPoint,
          !.k = @ + 1,
          !.log = Append(@, [sub |-> taken,
                             command |-> input[taken].commands[opState.k + 1],
                             from |-> opState.lastPoint,
                             emitted |-> CurvifyCommand(opState.lastPoint,
                                                        input[taken].commands[opState.k + 1])])]
  /\ delivered' =
       [delivered EXCEPT ![taken].commands =
          @ \o CurvifyCommand(opState.lastPoint, input[taken].commands[opState.k + 1])]
  /\ UNCHANGED <<earlier, tokenizer, parts, doc, whole, pos, cutInNumber, str, lastPoint, out, status,
                 handed, cmdLog, input, taken, opStatus, consumed>>

NextCurvify == CurvifySubPathsNext \/ CurvifyArcCommandsNext \/ OperatorComplete

SpecCurvify == InitCurvify /\ [][NextCurvify]_vars

\* The commands of a SubPath are an ObservableInput: an array, which
\* from(subPath.commands) (l.676) delivers within the call of subscribe, or
\* an observable that delivers later, one command at a time.
InitCancel ==
  /\ ParserIdle
  /\ input \in SeqsUpTo(CurvifyInputs, MaxSubPaths)
  /\ taken = 0
  /\ delivered = <<>>
  /\ opStatus = "open"
  /\ consumed = {}
  /\ opState \in {[NoCommands EXCEPT !.sync = b] : b \in BOOLEAN}

\* The consumer unsubscribes from the commands of the current SubPath while
\* commands are still to come; kAt and nAt keep the numbers of commands
\* handled and of items delivered so far.  While an array is being
\* delivered the consumer runs only inside its next callback, so it has
\* just received an item.
Unsubscribe ==
  /\ opStatus # "idle"
  /\ taken > 0
  /\ ~opState.unsubscribed
  /\ opState.k < Len(input[taken].commands)
  /\ opState.sync =>
       /\ opState.k > 0
       /\ opState.log[Len(opState.log)].emitted # <<>>
  /\ opState' = [opState EXCEPT !.unsubscribed = TRUE, !.kAt = opState.k,
                                !.nAt = Len(delivered[taken].commands)]
  /\ UNCHANGED <<earlier, tokenizer, parts, doc, whole, pos, cutInNumber, str, lastPoint, out, status,
                 handed, cmdLog, input, taken, delivered, opStatus, consumed>>

\* The handler of curvifyArcCommands (l.556-666) is called after the consumer
\* has unsubscribed.  The subscription to input is handed to the subscriber
\* as its teardown only when input.subscribe returns (l.555): a source that
\* delivers later has been unsubscribed from and calls nothing; an array is
\* delivered to its end within input.subscribe, the handler runs for every
\* command and the stopped subscriber drops what it is given.
CurvifyArcCommandsUnsubscribed ==
  /\ opStatus # "idle"
  /\ taken > 0
  /\ opState.unsubscribed
  /\ opState.sync
  /\ opState.k < Len(input[taken].commands)
  /\ opState' =
       [opState EXCEPT
          !.lastPoint = input[taken].commands[opState.k + 1].toPoint,
          !.k = @ + 1,
          !.log = Append(@, [sub |-> taken,
                             command |-> input[taken].commands[opState.k + 1],
                             from |-> opState.lastPoint,
                             emitted |-> <<>>])]
  /\ UNCHANGED <<earlier, tokenizer, parts, doc, whole, pos, cutInNumber, str, lastPoint, out, status,
                 handed, cmdLog, input, taken, delivered, opStatus, consumed>>

\* curvifySubPaths goes on to the next SubPath after the commands of the
\* current one have been unsubscribed from
CurvifySubPathsNextAfter ==
  /\ opStatus = "open"
  /\ taken < Len(input)
  /\ taken > 0
  /\ opState.unsubscribed
  /\ opState.sync => opState.k = Len(input[taken].commands)
  /\ taken' = taken + 1
  /\ delivered' = Append(delivered, CurvifiedSubPath(input[taken + 1]))
  /\ consumed' = consumed \cup {taken + 1}
  /\ opState' = [opState EXCEPT !.lastPoint = input[taken + 1].startPoint, !.k = 0,
                                !.unsubscribed = FALSE, !.kAt = 0, !.nAt = 0]
  /\ UNCHANGED <<earlier, tokenizer, parts, doc, whole, pos, cutInNumber, str, lastPoint, out, status,
                 handed, cmdLog, input, opStatus>>

NextCancel ==
  \/ CurvifySubPathsNext
  \/ CurvifyArcCommandsNext
  \/ Unsubscribe
  \/ CurvifyArcCommandsUnsubscribed
  \/ CurvifySubPathsNextAfter
  \/ OperatorComplete

SpecCancel == InitCancel /\ [][NextCancel]_vars

-----------------------------------------------------------------------------
(* transformPathCommandPoints and transformSubPathPoints (index.ts         *)
(* l.515-549).                                                             *)

\* PointTransformers: a translation, a reflection and a scaling
Transformers == {"shift", "swap", "double"}

\* transformer.transformPoint(p)
TransformPoint(transformer, p) ==
  CASE transformer = "shift" -> Pt(Add(p.x, Num(1)), Add(p.y, Num(2)))
    [] transformer = "swap" -> Pt(p.y, p.x)
    [] transformer = "double" -> Pt(Add(p.x, p.x), Add(p.y, p.y))

\* a function of map that passes an Arc on with its end point transformed
TransformedWithArcs(transformer, command) ==
  CASE command.type = "L" -> <<Line(TransformPoint(transformer, command.toPoint))>>
    [] command.type = "Q" ->
         <<QuadraticCurve(TransformPoint(transformer, command.controlPoints[1]),
                          TransformPoint(transformer, command.toPoint))>>
    [] command.type = "C" ->
         <<CubicCurve(TransformPoint(transformer, command.controlPoints[1]),
                      TransformPoint(transformer, command.controlPoints[2]),
                      TransformPoint(transformer, command.toPoint))>>
    [] command.type = "A" ->
         <<[command EXCEPT !.toPoint = TransformPoint(transformer, command.toPoint)]>>

\* l.517-538: what the function of map returns for one command, as the
\* sequence of the items emitted; it throws for an Arc (l.536) and nothing
\* is emitted
Transformed(transformer, command) ==
  CASE command.type = "L" -> <<Line(TransformPoint(transformer, command.toPoint))>>
    [] command.type = "Q" ->
         <<QuadraticCurve(TransformPoint(transformer, command.controlPoints[1]),
                          TransformPoint(transformer, command.toPoint))>>
    [] command.type = "C" ->
         <<CubicCurve(TransformPoint(transformer, command.controlPoints[1]),
                      TransformPoint(transformer, command.controlPoints[2]),
                      TransformPoint(transformer, command.toPoint))>>
    [] command.type = "A" -> <<>>

\* l.536: the function of map throws; map turns that into an error notification
Throws(command) == command.type = "A"

\* a transformSubPathPoints that copies the other fields of its input
TransformedSubPathCarrying(transformer, subPath) ==
  [subPath EXCEPT !.startPoint = TransformPoint(transformer, subPath.startPoint),
                  !.commands = <<>>]

\* l.544-548: the SubPath transformSubPathPoints delivers, before any of its
\* commands is delivered; closed is read from the input, undefined when absent
TransformedSubPath(transformer, subPath) ==
  IF "closed" \in DOMAIN subPath
  THEN [startPoint |-> TransformPoint(transformer, subPath.startPoint),
        commands |-> <<>>, closed |-> subPath.closed]
  ELSE [startPoint |-> TransformPoint(transformer, subPath.startPoint),
        commands |-> <<>>]

\* SubPaths with every kind of segment; Arcs first, last and between other
\* segments, with and without flags; cached text; no segments
TransformInputs ==
  {[startPoint |-> Pt(Num(0), Num(0)), closed |-> TRUE,
    commands |-> <<Line(Pt(Num(100), Num(100))), Line(Pt(Num(0), Num(100)))>>],
   [startPoint |-> Pt(Num(1), Num(-2)), closed |-> FALSE,
    commands |-> <<QuadraticCurve(Pt(Num(0), Num(3)), Pt(Num(4), Num(5))),
                   CubicCurve(Pt(Num(6), Num(0)), Pt(Num(7), Num(8)), Pt(Num(9), Num(1))),
                   Line(Pt(Num(2), Num(2)))>>],
   [startPoint |-> Pt(Num(0), Num(0)), closed |-> FALSE,
    commands |-> <<Line(Pt(Num(1), Num(1))),
                   Arc(Num(3), Num(4), Num(0), TRUE, FALSE, Pt(Num(5), Num(6))),
                   Line(Pt(Num(7), Num(7)))>>],
   [startPoint |-> Pt(Num(2), Num(3)),
    commands |-> <<ArcNoFlags(Num(1), Num(1), Num(30), Pt(Num(4), Num(5))),
                   CubicCurve(Pt(Num(1), Num(0)), Pt(Num(2), Num(0)), Pt(Num(3), Num(1)))>>],
   [startPoint |-> Pt(Num(5), Num(5)), closed |-> TRUE,
    commands |-> <<QuadraticCurve(Pt(Num(6), Num(6)), Pt(Num(7), Num(5))),
                   Arc(Num(0), Num(2), Num(0), FALSE, TRUE, Pt(Num(5), Num(5)))>>],
   [startPoint |-> Pt(Num(1), Num(2)), closed |-> TRUE,
    commands |-> <<Line(Pt(Num(3), Num(4)))>>,
    svgPathData |-> <<"M","1",",","2","L","3",",","4","Z">>],
   [startPoint |-> Pt(Num(4), Num(4)), closed |-> FALSE, commands |-> <<>>],
   [startPoint |-> Pt(NaN, Num(1)), closed |-> FALSE,
    commands |-> <<Line(Pt(Num(2), NaN))>>]}

\* transformSubPathPoints(transformer) subscribed to a source; `failed`
\* tells that the commands of the current SubPath ended with an error
InitTransform ==
  /\ ParserIdle
  /\ input \in SeqsUpTo(TransformInputs, MaxSubPaths)
  /\ taken = 0
  /\ delivered = <<>>
  /\ opStatus = "open"
  /\ consumed = {}
  /\ opState \in {[transformer |-> t, k |-> 0, failed |-> FALSE, log |-> <<>>] :
                    t \in Transformers}

\* transformSubPathPoints receives the next SubPath (l.544-548) and delivers
\* its counterpart; the consumer subscribes to its commands.  The consumer
\* has seen the end of the commands of the SubPath before.
TransformSubPathPointsNext ==
  /\ opStatus = "open"
  /\ taken < Len(input)
  /\ taken > 0 => opState.failed \/ opState.k = Len(input[taken].commands)
  /\ taken' = taken + 1
  /\ delivered' = Append(delivered, TransformedSubPath(opState.transformer, input[taken + 1]))
  /\ consumed' = consumed \cup {taken + 1}
  /\ opState' = [opState EXCEPT !.k = 0, !.failed = FALSE]
  /\ UNCHANGED <<earlier, tokenizer, parts, doc, whole, pos, cutInNumber, str, lastPoint, out, status,
                 handed, cmdLog, input, opStatus>>

\* transformPathCommandPoints receives the next command of the current
\* SubPath (l.517-538); after an error the subscription has ended and no
\* further command arrives
TransformPathCommandPointsNext ==
  /\ opStatus # "idle"
  /\ taken > 0
  /\ ~opState.failed
  /\ opState.k < Len(input[taken].commands)
  /\ opState' =
       [opState EXCEPT
          !.k = @ + 1,
          !.failed = Throws(input[taken].commands[opState.k + 1]),
          !.log = Append(@, [sub |-> taken,
                             command |-> input[taken].commands[opState.k + 1],
                             emitted |-> Transformed(opState.transformer,
                                                     input[taken].commands[opState.k + 1]),
                             error |-> Throws(input[taken].commands[opState.k + 1])])]
  /\ delivered' =
       [delivered EXCEPT ![taken].commands =
          @ \o Transformed(opState.transformer, input[taken].commands[opState.k + 1])]
  /\ UNCHANGED <<earlier, tokenizer, parts, doc, whole, pos, cutInNumber, str, lastPoint, out, status,
                 handed, cmdLog, input, taken, opStatus, consumed>>

NextTransform ==
  TransformSubPathPointsNext \/ TransformPathCommandPointsNext \/ OperatorComplete

SpecTransform == InitTransform /\ [][NextTransform]_vars

-----------------------------------------------------------------------------
(* invertSubPaths (l.432-513), curvifySubPaths (l.673-679) and             *)
(* transformSubPathPoints (l.542-549), each followed by toSVGPathData       *)
(* (l.80-99), over SubPaths that carry cached text.  The state in opState:  *)
(*   operator    which of the three is applied                              *)
(*   results     the SubPaths it has delivered, with the commands each one  *)
(*               delivers when subscribed to                                *)
(*   failed      the results whose commands end with an error               *)
(*   serialized  the number of results toSVGPathData has received           *)

\* SubPaths with cached text that differs from what their fields give, and
\* SubPaths without; an Arc that curvifyArcCommands replaces by a Line
CachedInputs ==
  {[startPoint |-> Pt(Num(1), Num(2)), closed |-> TRUE,
    commands |-> <<Line(Pt(Num(3), Num(4)))>>,
    svgPathData |-> <<"m","1"," ","1","h","2">>],
   [startPoint |-> Pt(Num(0), Num(0)), closed |-> FALSE,
    commands |-> <<Line(Pt(Num(1), Num(1))),
                   Arc(Num(0), Num(5), Num(0), FALSE, TRUE, Pt(Num(3), Num(4))),
                   QuadraticCurve(Pt(Num(8), Num(1)), Pt(Num(8), Num(2)))>>,
    svgPathData |-> <<"M","9",",","9","L","8",",","8">>],
   [startPoint |-> Pt(Num(5), Num(5)), closed |-> TRUE, commands |-> <<>>,
    svgPathData |-> <<"M","1","0","0",",","1","0","0","L","2","0","0",",","1","0","0","Z">>],
   [startPoint |-> Pt(Num(2), Num(3)), closed |-> FALSE,
    commands |-> <<CubicCurve(Pt(Num(1), Num(0)), Pt(Num(2), Num(0)), Pt(Num(3), Num(1))),
                   Line(Pt(Num(4), Num(5)))>>],
   [startPoint |-> Pt(Num(0), Num(0)),
    commands |-> <<Line(Pt(Num(2), Num(0)))>>]}

InitCached ==
  /\ ParserIdle
  /\ input \in SeqsUpTo(CachedInputs, MaxSubPaths)
  /\ taken = 0
  /\ delivered = <<>>
  /\ opStatus = "open"
  /\ consumed = {}
  /\ \E o \in {"invert", "curvify", "transform"} :
       opState = [operator |-> o, results |-> <<>>, failed |-> {}, serialized |-> 0]

RECURSIVE CurvifyAll(_, _)
\* what curvifyArcCommands(lp) delivers for an array of commands (l.552-671)
CurvifyAll(lp, commands) ==
  IF commands = <<>> THEN <<>>
  ELSE CurvifyCommand(lp, Head(commands)) \o CurvifyAll(Head(commands).toPoint, Tail(commands))

RECURSIVE TransformAll(_, _)
\* what transformPathCommandPoints delivers for an array of commands, up to
\* the error of the first Arc (l.515-540)
TransformAll(transformer, commands) ==
  IF commands = <<>> THEN <<>>
  ELSE IF Throws(Head(commands)) THEN <<>>
  ELSE Transformed(transformer, Head(commands)) \o TransformAll(transformer, Tail(commands))

\* the operator delivers its result for the next SubPath, once
\* toSVGPathData has dealt with the results before
ResultDelivered(result, fails) ==
  /\ opStatus = "open"
  /\ taken < Len(input)
  /\ opState.serialized = taken
  /\ taken' = taken + 1
  /\ opState' = [opState EXCEPT !.results = Append(@, result),
                                !.failed = IF fails THEN @ \cup {taken + 1} ELSE @]
  /\ UNCHANGED <<earlier, tokenizer, parts, doc, whole, pos, cutInNumber, str, lastPoint, out, status,
                 handed, cmdLog, input, delivered, opStatus, consumed>>

\* invertSubPaths receives the next SubPath (l.434-511)
CachedInvertNext ==
  /\ opState.operator = "invert"
  /\ ResultDelivered(Invert(input[taken + 1]), FALSE)

\* curvifySubPaths receives the next SubPath (l.674-678)
CachedCurvifyNext ==
  /\ opState.operator = "curvify"
  /\ ResultDelivered([CurvifiedSubPath(input[taken + 1]) EXCEPT
                        !.commands = CurvifyAll(input[taken + 1].startPoint,
                                                input[taken + 1].commands)],
                     FALSE)

\* transformSubPathPoints receives the next SubPath (l.544-548)
CachedTransformNext ==
  /\ opState.operator = "transform"
  /\ ResultDelivered([TransformedSubPath("shift", input[taken + 1]) EXCEPT
                        !.commands = TransformAll("shift", input[taken + 1].commands)],
                     \E n \in 1..Len(input[taken + 1].commands) :
                       Throws(input[taken + 1].commands[n]))

\* the fragments of a SubPath whose commands end with an error: the M
\* fragment and those of the commands before it (l.86-90)
FragmentsUntilError(subPath) ==
  <<<<"M">> \o PointToStr(subPath.startPoint)>>
  \o [i \in 1..Len(subPath.commands) |-> PathCommandToString(subPath.commands[i])]

\* toSVGPathData receives the result (l.82-97); an error of its commands
\* ends the serialization unless cached text takes their place
CachedSerializeNext ==
  /\ opStatus = "open"
  /\ opState.serialized < taken
  /\ LET result == opState.results[taken]
         fails == taken \in opState.failed /\ CommandsSubscribed(result)
     IN  /\ delivered' = delivered \o (IF fails THEN FragmentsUntilError(result)
                                       ELSE SubPathFragments(result))
         /\ opStatus' = IF fails THEN "error" ELSE opStatus
         /\ consumed' = IF CommandsSubscribed(result) THEN consumed \cup {taken} ELSE consumed
  /\ opState' = [opState EXCEPT !.serialized = taken]
  /\ UNCHANGED <<earlier, tokenizer, parts, doc, whole, pos, cutInNumber, str, lastPoint, out, status,
                 handed, cmdLog, input, taken>>

\* the source completes; the operator and toSVGPathData pass it on
CachedComplete ==
  /\ opStatus = "open"
  /\ taken = Len(input)
  /\ opState.serialized = taken
  /\ opStatus' = "complete"
  /\ UNCHANGED <<earlier, tokenizer, parts, doc, whole, pos, cutInNumber, str, lastPoint, out, status,
                 handed, cmdLog, input, taken, delivered, consumed, opState>>

NextCached ==
  \/ CachedInvertNext
  \/ CachedCurvifyNext
  \/ CachedTransformNext
  \/ CachedSerializeNext
  \/ CachedComplete

SpecCached == InitCached /\ [][NextCached]_vars

-----------------------------------------------------------------------------
(* Vocabulary of the properties.                                           *)

\* the calls of onCompleteCommand: <<i, j>> is call j for the i-th string handed over
LogIdx == UNION {{<<i, j>> : j \in 1..Len(cmdLog[i])} : i \in 1..Len(cmdLog)}

Entry(ij) == cmdLog[ij[1]][ij[2]]

\* the group size the grammar gives each command letter
GrammarGroupSize(code) ==
  CASE code \in {"L", "l", "T", "t"} -> 2
    [] code \in {"H", "h", "V", "v"} -> 1
    [] code \in {"Q", "q", "S", "s"} -> 4
    [] code \in {"C", "c"} -> 6
    [] code \in {"A", "a"} -> 7

\* the current point before group k of a logged command
CurrentBefore(e, k) == IF k = 1 THEN e.pre.lastPoint ELSE e.segs[k - 1].toPoint

\* parameter k of group number grp of a logged command
GroupParam(e, grp, k) == e.params[(grp - 1) * GrammarGroupSize(e.code) + k]

StartsWithoutMove(s) == HasNonSpace(s) /\ s[FirstNonSpace(s)] \notin {"m", "M"}

Finite(p) == ~p.x.nan /\ ~p.y.nan

SegmentFinite(seg) ==
  /\ Finite(seg.toPoint)
  /\ seg.type \in {"Q", "C"} =>
       \A k \in 1..Len(seg.controlPoints) : Finite(seg.controlPoints[k])
  /\ seg.type = "A" => ~seg.radiusX.nan /\ ~seg.radiusY.nan /\ ~seg.rotateDegrees.nan

\* the segments the log of a subpath says were emitted
RECURSIVE LoggedSegs(_)
LoggedSegs(log) == IF log = <<>> THEN <<>> ELSE Head(log).segs \o LoggedSegs(Tail(log))

\* "L1 2 3", "l", "H", "v", "Q1 2 3", "T1", "C1,2", "s1", "A1"
BadCountFrags ==
  {<<"L","1"," ","2"," ","3">>,
   <<"l">>,
   <<"H">>,
   <<"v">>,
   <<"Q","1"," ","2"," ","3">>,
   <<"T","1">>,
   <<"C","1",",","2">>,
   <<"s","1">>,
   <<"A","1">>}

\* "X", "b1"
UnknownFrags ==
  {<<"X">>,
   <<"b","1">>}

\* "M", "M5", "M1,2,3"
BadMoveDocs ==
  {<<"M">>,
   <<"M","5">>,
   <<"M","1",",","2",",","3">>}

-----------------------------------------------------------------------------
(* Properties.                                                             *)

\* C1: round trip.  When the parse of the document completes, the fragments
\* toSVGPathData emits for the parsed SubPaths, concatenated and parsed again,
\* complete as well and give the same SubPaths (startPoint, closed, segments).
C1_RoundTrip ==
  status = "complete" =>
    LET again == FromSVGPathData(<<Flatten(ToSVGPathData(out))>>)
    IN  again.status = "complete" /\ again.out = out

\* C2: chunk invariance.  However the document is cut into chunks, the
\* SubPaths delivered so far are a prefix of those the document gives as one
\* chunk, and at the end the SubPaths and the terminal notification are the same.
C2_ChunkInvariance ==
  LET one == FromSVGPathData(<<doc>>)
  IN  /\ Len(out) <= Len(one.out)
      /\ out = SubSeq(one.out, 1, Len(out))
      /\ Done => out = one.out /\ status = one.status

\* reached: a document of two or more SubPaths, cut inside a number, completed
C2_Witness == status = "complete" /\ cutInNumber /\ Len(out) >= 2

\* a document of subpaths, each a move directive with a drawing command and an
\* optional close directive after it
IsSubPathDoc(ps) ==
  /\ ps # <<>>
  /\ ps[1] \in GoodSubPaths
  /\ \A i \in 1..Len(ps) :
       \/ ps[i] \in GoodSubPaths
       \/ ps[i] \in CloseFrags /\ i > 1 /\ ps[i - 1] \in GoodSubPaths

RECURSIVE ClosedFlags(_)
\* for each subpath of such a document, whether a close directive ends it
ClosedFlags(ps) ==
  IF ps = <<>> THEN <<>>
  ELSE IF Head(ps) \in CloseFrags THEN ClosedFlags(Tail(ps))
  ELSE <<Len(ps) > 1 /\ ps[2] \in CloseFrags>> \o ClosedFlags(Tail(ps))

\* C3: subpath splitting.  A document of k subpaths (move, drawing commands,
\* optional Z/z) gives exactly k SubPaths in order, SubPath i closed exactly
\* when subpath i ends with Z/z, also when a closed subpath is followed by
\* another subpath.
C3_SubpathSplitting ==
  (Done /\ IsSubPathDoc(parts)) =>
    /\ status = "complete"
    /\ [i \in 1..Len(out) |-> out[i].closed] = ClosedFlags(parts)

\* C4: malformed document.  The splitter hands only strings that begin with
\* a move letter to the segment parser, every SubPath comes from a string
\* handed over, and text that starts with anything else ends the parse with
\* an error and without a SubPath for it.
C4_MalformedDocument ==
  /\ \A i \in 1..Len(handed) : handed[i][1] \in {"m", "M"}
  /\ Len(out) <= Len(handed)
  /\ (Done /\ StartsWithoutMove(str)) => status = "error"
  /\ (Done /\ StartsWithoutMove(doc)) =>
       status = "error" /\ out = <<>> /\ handed = <<>>

\* reached: text that starts with a drawing command and holds a move letter
\* later (as in 'L0,0M0 0') has ended in an error
C4_Witness ==
  /\ status = "error"
  /\ StartsWithoutMove(doc)
  /\ \E i \in 1..Len(str) : str[i] \in {"m", "M"}

\* C5: invalid parameter count.  A command with no parameter, or with a
\* count that is no multiple of its group size, fails the parse: it emits no
\* segment, it is the last command parsed, and no SubPath is delivered for
\* its subpath; so does a move directive with fewer than 2 or an odd number
\* of parameters.
C5_InvalidParameterCount ==
  /\ \A ij \in LogIdx :
       LET e == Entry(ij)
       IN  (/\ e.code \in KnownCommands
            /\ \/ Len(e.params) = 0
               \/ Len(e.params) % GrammarGroupSize(e.code) # 0)
           => /\ e.err = "invalid number of parameters"
              /\ e.segs = <<>>
              /\ ij[2] = Len(cmdLog[ij[1]])
              /\ status = "error"
              /\ Len(out) < ij[1]
  /\ \A i \in 1..Len(handed) :
       LET m == SubPathMatch(handed[i])
           n == Len(SplitParams(Trim(m.m2)))
       IN  (m.ok /\ (n < 2 \/ n % 2 = 1)) =>
             status = "error" /\ Len(out) < i /\ cmdLog[i] = <<>>
  /\ (Done /\ \E i \in 1..Len(parts) : parts[i] \in BadCountFrags \cup BadMoveDocs) =>
       status = "error" /\ out = <<>>

\* reached: a command that follows a valid command and has one whole group
\* and a part of another has failed the parse
C5_Witness ==
  /\ status = "error"
  /\ \E ij \in LogIdx :
       /\ ij[2] > 1
       /\ Entry(ij).err = "invalid number of parameters"
       /\ Len(Entry(ij).params) > GrammarGroupSize(Entry(ij).code)

\* C6: unknown command.  A command letter outside the sixteen known ones
\* fails the parse with an error; no segment is emitted for it and no
\* SubPath is delivered for its subpath.
C6_UnknownCommand ==
  /\ \A ij \in LogIdx :
       LET e == Entry(ij)
       IN  (e.code # "" /\ e.code \notin KnownCommands)
           => /\ e.err = "invalid command"
              /\ e.segs = <<>>
              /\ status = "error"
              /\ Len(out) < ij[1]
  /\ (Done /\ \E i \in 1..Len(parts) : parts[i] \in UnknownFrags) =>
       status = "error" /\ out = <<>>

\* reached: an unknown letter after a valid command has failed the parse
C6_Witness ==
  /\ status = "error"
  /\ \E ij \in LogIdx : ij[2] > 1 /\ Entry(ij).err = "invalid command"

\* C7: invalid number.  No SubPath delivered has a start point, control
\* point, endpoint or arc field that is NaN.
C7_InvalidNumber ==
  \A i \in 1..Len(out) :
    /\ Finite(out[i].startPoint)
    /\ \A k \in 1..Len(out[i].commands) : SegmentFinite(out[i].commands[k])

\* where the coordinate pairs of a group stand in it, and the points of the
\* segment they give
PairOffsets(code) ==
  CASE code \in {"L", "l", "T", "t"} -> <<1>>
    [] code \in {"Q", "q", "S", "s"} -> <<1, 3>>
    [] code \in {"C", "c"} -> <<1, 3, 5>>
    [] code \in {"A", "a"} -> <<6>>

ExplicitPoints(code, seg) ==
  CASE code \in {"L", "l", "T", "t", "A", "a"} -> <<seg.toPoint>>
    [] code \in {"Q", "q"} -> <<seg.controlPoints[1], seg.toPoint>>
    [] code \in {"S", "s"} -> <<seg.controlPoints[2], seg.toPoint>>
    [] code \in {"C", "c"} -> <<seg.controlPoints[1], seg.controlPoints[2], seg.toPoint>>

\* C8: absolute/relative resolution.  An uppercase command takes each
\* coordinate pair of a group verbatim, a lowercase command adds to each pair
\* the current point as it was before the group; after a group the current
\* point is the segment's toPoint, within a command and from one command to
\* the next; the segments of a delivered SubPath are the ones so resolved.
C8_AbsoluteRelative ==
  /\ \A ij \in LogIdx :
       LET e == Entry(ij)
       IN  (e.err = "" /\ e.code \notin {"H", "h", "V", "v"}) =>
             /\ Len(e.segs) * GrammarGroupSize(e.code) = Len(e.params)
             /\ e.post.lastPoint = e.segs[Len(e.segs)].toPoint
             /\ \A k \in 1..Len(e.segs) : \A q \in 1..Len(PairOffsets(e.code)) :
                  LET cur == CurrentBefore(e, k)
                      gx == GroupParam(e, k, PairOffsets(e.code)[q])
                      gy == GroupParam(e, k, PairOffsets(e.code)[q] + 1)
                  IN  ExplicitPoints(e.code, e.segs[k])[q] =
                        IF e.code \in LowerLetters
                        THEN Pt(Add(cur.x, gx), Add(cur.y, gy))
                        ELSE Pt(gx, gy)
  /\ \A ij \in LogIdx :
       ij[2] > 1 => Entry(ij).pre.lastPoint = Entry(<<ij[1], ij[2] - 1>>).post.lastPoint
  /\ \A i \in 1..Len(out) :
       /\ out[i].commands = LoggedSegs(cmdLog[i])
       /\ cmdLog[i][1].pre.lastPoint = out[i].startPoint

\* reached: a lowercase curve command of two groups, away from the origin,
\* in a SubPath that was delivered
C8_Witness ==
  /\ status = "complete"
  /\ \E ij \in LogIdx :
       /\ Entry(ij).code \in {"q", "s", "c"}
       /\ Len(Entry(ij).segs) = 2
       /\ Entry(ij).pre.lastPoint # Pt(Num(0), Num(0))

\* C9: H/h and V/v.  Each scalar emits one Line; H/h keep the current y and
\* set x to the parameter (H) or the current x plus the parameter (h); V/v
\* keep the current x and set y likewise.
C9_HorizontalVertical ==
  \A ij \in LogIdx :
    LET e == Entry(ij)
    IN  (e.err = "" /\ e.code \in {"H", "h", "V", "v"}) =>
          /\ Len(e.segs) = Len(e.params)
          /\ e.segs # <<>>
          /\ \A k \in 1..Len(e.segs) :
               LET cur == CurrentBefore(e, k)
                   a == e.params[k]
               IN  e.segs[k] =
                     Line(CASE e.code = "H" -> Pt(a, cur.y)
                            [] e.code = "h" -> Pt(Add(cur.x, a), cur.y)
                            [] e.code = "V" -> Pt(cur.x, a)
                            [] e.code = "v" -> Pt(cur.x, Add(cur.y, a)))

\* reached: an h or V command of two scalars, off the diagonal, has been parsed
C9_Witness ==
  /\ status = "complete"
  /\ \E ij \in LogIdx :
       /\ Entry(ij).code \in {"h", "V"}
       /\ Len(Entry(ij).segs) = 2
       /\ Entry(ij).pre.lastPoint.x # Entry(ij).pre.lastPoint.y

\* the segment emitted just before group k of call ij, in the same subpath;
\* <<>> when there is none
SegmentBefore(ij, k) ==
  IF k > 1 THEN <<Entry(ij).segs[k - 1]>>
  ELSE IF ij[2] > 1
  THEN LET before == Entry(<<ij[1], ij[2] - 1>>).segs IN <<before[Len(before)]>>
  ELSE <<>>

\* C10: T/t shorthand.  After a quadratic segment, each T/t group emits a
\* QuadraticCurve whose control point is 2*currentPoint minus the control
\* point of that quadratic, group after group; 'M0,0 Q65,75 90,110 T200,300'
\* gives the control point {115,145}.
C10_SmoothQuadratic ==
  /\ \A ij \in LogIdx :
       LET e == Entry(ij)
       IN  (e.err = "" /\ e.code \in {"T", "t"}) =>
             \A k \in 1..Len(e.segs) :
               LET prev == SegmentBefore(ij, k)
               IN  /\ e.segs[k].type = "Q"
                   /\ (prev # <<>> /\ prev[1].type = "Q") =>
                        LET cur == prev[1].toPoint
                            c == prev[1].controlPoints[1]
                        IN  e.segs[k].controlPoints =
                              <<Pt(Sub(Add(cur.x, cur.x), c.x), Sub(Add(cur.y, cur.y), c.y))>>
  /\ (Done /\ doc = TQuadraticScenario) =>
       /\ status = "complete"
       /\ out[1].commands[2] =
            QuadraticCurve(Pt(Num(115), Num(145)), Pt(Num(200), Num(300)))

\* reached: a T or t command of two groups right after a Q or q command
C10_Witness ==
  /\ status = "complete"
  /\ \E ij \in LogIdx :
       /\ ij[2] > 1
       /\ Entry(ij).code \in {"T", "t"}
       /\ Len(Entry(ij).segs) = 2
       /\ Entry(<<ij[1], ij[2] - 1>>).code \in {"Q", "q"}
       /\ Entry(ij).segs[2].controlPoints[1] # Entry(ij).segs[1].toPoint

\* C11: S/s shorthand.  Each S/s group emits a CubicCurve whose second
\* control point is the explicit one (offset by the current point for s);
\* when the segment emitted just before is a cubic, the first control point
\* is 2*currentPoint minus that cubic's second control point, group after
\* group, so the explicit control point is the mirror of the next group.
C11_SmoothCubic ==
  \A ij \in LogIdx :
    LET e == Entry(ij)
    IN  (e.err = "" /\ e.code \in {"S", "s"}) =>
          \A k \in 1..Len(e.segs) :
            LET prev == SegmentBefore(ij, k)
                cur == CurrentBefore(e, k)
                gx == GroupParam(e, k, 1)
                gy == GroupParam(e, k, 2)
            IN  /\ e.segs[k].type = "C"
                /\ e.segs[k].controlPoints[2] =
                     IF e.code = "s" THEN Pt(Add(cur.x, gx), Add(cur.y, gy))
                     ELSE Pt(gx, gy)
                /\ (prev # <<>> /\ prev[1].type = "C") =>
                     e.segs[k].controlPoints[1] =
                       Pt(Sub(Add(cur.x, cur.x), prev[1].controlPoints[2].x),
                          Sub(Add(cur.y, cur.y), prev[1].controlPoints[2].y))

\* reached: an s command of two groups right after a C or c command, whose
\* reflected control points differ from the points they reflect through
C11_Witness ==
  /\ status = "complete"
  /\ \E ij \in LogIdx :
       /\ ij[2] > 1
       /\ Entry(ij).code = "s"
       /\ Len(Entry(ij).segs) = 2
       /\ Entry(<<ij[1], ij[2] - 1>>).code \in {"C", "c"}
       /\ Entry(ij).segs[1].controlPoints[1] # Entry(ij).pre.lastPoint
       /\ Entry(ij).segs[2].controlPoints[1] # Entry(ij).segs[1].toPoint

\* the parameters of the move directive of the i-th string handed over
MoveParamsOf(i) == MapParseFloat(SplitParams(Trim(SubPathMatch(handed[i]).m2)))

\* the move letter of the i-th string handed over
MoveLetterOf(i) == SubPathMatch(handed[i]).m1

RECURSIVE ImplicitLines(_, _, _, _)
\* the Lines of the pairs of mp from index k on, the current point being cur:
\* absolute after M, relative to the running current point after m
ImplicitLines(letter, cur, mp, k) ==
  IF k > Len(mp) THEN <<>>
  ELSE LET p == IF letter = "m"
                THEN Pt(Add(cur.x, mp[k]), Add(cur.y, mp[k + 1]))
                ELSE Pt(mp[k], mp[k + 1])
       IN  <<Line(p)>> \o ImplicitLines(letter, p, mp, k + 2)

\* C12: implicit line after move.  Of the pairs of a move directive the
\* first is the start point and every further pair is a Line, absolute after
\* M and relative to the running current point after m; these Lines come
\* first in the SubPath, before the segments of the commands that follow.
C12_ImplicitLine ==
  \A i \in 1..Len(out) :
    LET mp == MoveParamsOf(i)
        lines == ImplicitLines(MoveLetterOf(i), out[i].startPoint, mp, 3)
        follow == IF Len(mp) > 2 THEN Tail(cmdLog[i]) ELSE cmdLog[i]
    IN  /\ 2 * (Len(lines) + 1) = Len(mp)
        /\ out[i].commands = lines \o LoggedSegs(follow)
        /\ MoveLetterOf(i) = "M" => out[i].startPoint = Pt(mp[1], mp[2])

\* reached: a second subpath opened by m with three pairs and a command after them
C12_Witness ==
  /\ status = "complete"
  /\ \E i \in 2..Len(out) :
       /\ MoveLetterOf(i) = "m"
       /\ Len(MoveParamsOf(i)) = 6
       /\ Len(out[i].commands) > 2
       /\ out[i].startPoint # Pt(MoveParamsOf(i)[1], MoveParamsOf(i)[2])

\* the point a relative move starts from: the origin for the first subpath,
\* the toPoint of the last segment of the preceding subpath otherwise
PrecedingPoint(i) ==
  IF i = 1 THEN Pt(Num(0), Num(0))
  ELSE out[i - 1].commands[Len(out[i - 1].commands)].toPoint

\* C13: relative move.  A subpath opened by 'm dx,dy' starts at P + (dx,dy),
\* P being {0,0} for the first subpath and the toPoint of the last segment
\* of the preceding subpath otherwise; a subpath opened by 'M x,y' starts at
\* (x,y) whatever preceded it.
C13_RelativeMove ==
  \A i \in 1..Len(out) :
    LET mp == MoveParamsOf(i)
        P == PrecedingPoint(i)
    IN  out[i].startPoint =
          IF MoveLetterOf(i) = "m"
          THEN Pt(Add(P.x, mp[1]), Add(P.y, mp[2]))
          ELSE Pt(mp[1], mp[2])

\* reached: a third subpath opened by m whose predecessor ended away from
\* the origin and from its own start point, and a subpath opened by M after another
C13_Witness ==
  /\ status = "complete"
  /\ \E i \in 3..Len(out) :
       /\ MoveLetterOf(i) = "m"
       /\ PrecedingPoint(i) # Pt(Num(0), Num(0))
       /\ PrecedingPoint(i) # out[i - 1].startPoint
  /\ \E i \in 2..Len(out) : MoveLetterOf(i) = "M"

\* whether a SubPath carries cached text
Cached(subPath) == "svgPathData" \in DOMAIN subPath

\* the number of fragments of a SubPath: one for cached text; otherwise the
\* move, one per segment, and the close when closed is true
FragCount(subPath) ==
  IF Cached(subPath) THEN 1
  ELSE 1 + Len(subPath.commands) + (IF Flag(subPath, "closed") THEN 1 ELSE 0)

RECURSIVE FragOffset(_)
\* the number of fragments of the SubPaths before the i-th
FragOffset(i) == IF i = 1 THEN 0 ELSE FragOffset(i - 1) + FragCount(input[i - 1])

\* the fragments delivered for the i-th SubPath
FragmentsOf(i) == SubSeq(delivered, FragOffset(i) + 1, FragOffset(i) + FragCount(input[i]))

\* the numbers written after the first character of a fragment
NumbersOf(frag) == MapParseFloat(SplitParams(Trim(Tail(frag))))

FlagNumber(obj, name) == IF Flag(obj, name) THEN Num(1) ELSE Num(0)

\* the numbers of a segment in absolute form
SegmentNumbers(seg) ==
  CASE seg.type = "L" -> <<seg.toPoint.x, seg.toPoint.y>>
    [] seg.type = "Q" -> <<seg.controlPoints[1].x, seg.controlPoints[1].y,
                           seg.toPoint.x, seg.toPoint.y>>
    [] seg.type = "C" -> <<seg.controlPoints[1].x, seg.controlPoints[1].y,
                           seg.controlPoints[2].x, seg.controlPoints[2].y,
                           seg.toPoint.x, seg.toPoint.y>>
    [] seg.type = "A" -> <<seg.radiusX, seg.radiusY, seg.rotateDegrees,
                           FlagNumber(seg, "largeArcFlag"), FlagNumber(seg, "sweepFlag"),
                           seg.toPoint.x, seg.toPoint.y>>

\* C14: serializer output sequence.  For each SubPath without cached text
\* toSVGPathData delivers, in this order: one M fragment with the start
\* point, one fragment per segment, beginning with L, Q, C or A and holding
\* the segment's numbers in absolute form (flags as 0 or 1, absent as 0),
\* and one Z fragment exactly when closed is true; no fragment holds a
\* lowercase letter or H, V, T, S.
C14_SerializerSequence ==
  /\ Len(delivered) = FragOffset(taken + 1)
  /\ \A i \in 1..taken :
       ~Cached(input[i]) =>
         LET f == FragmentsOf(i)
             sp == input[i]
         IN  /\ f[1][1] = "M"
             /\ NumbersOf(f[1]) = <<sp.startPoint.x, sp.startPoint.y>>
             /\ \A k \in 1..Len(sp.commands) :
                  /\ f[k + 1][1] = sp.commands[k].type
                  /\ f[k + 1][1] \in {"L", "Q", "C", "A"}
                  /\ NumbersOf(f[k + 1]) = SegmentNumbers(sp.commands[k])
             /\ Flag(sp, "closed") <=> f[Len(f)] = <<"Z">>
             /\ \A k \in 1..Len(f) : \A c \in 1..Len(f[k]) :
                  f[k][c] \notin LowerLetters \cup {"H", "V", "T", "S"}

\* reached: an Arc without flags, an Arc with one flag and a closed SubPath
\* have been serialized
C14_Witness ==
  /\ opStatus = "complete"
  /\ \E i \in 1..taken : \E k \in 1..Len(input[i].commands) :
       /\ ~Cached(input[i])
       /\ input[i].commands[k].type = "A"
       /\ "sweepFlag" \notin DOMAIN input[i].commands[k]
  /\ \E i \in 1..taken : ~Cached(input[i]) /\ Flag(input[i], "closed")

\* C15: cached text.  For a SubPath whose svgPathData is a string
\* toSVGPathData delivers exactly one fragment, that string, whatever
\* startPoint, commands and closed say, and does not subscribe to its commands.
C15_CachedText ==
  \A i \in 1..taken :
    Cached(input[i]) =>
      /\ FragOffset(i) + 1 <= Len(delivered)
      /\ delivered[FragOffset(i) + 1] = input[i].svgPathData
      /\ Len(delivered) - FragOffset(i) = 1 + (FragOffset(taken + 1) - FragOffset(i + 1))
      /\ i \notin consumed

\* reached: a SubPath with cached text, segments and closed = TRUE has been
\* serialized before a SubPath without cached text
C15_Witness ==
  /\ opStatus = "complete"
  /\ taken = 2
  /\ Cached(input[1])
  /\ input[1].commands # <<>>
  /\ Flag(input[1], "closed")
  /\ ~Cached(input[2])
  /\ 2 \in consumed

\* the points of a SubPath: p0 the start point, pi the toPoint of segment i
PointAt(subPath, i) == IF i = 0 THEN subPath.startPoint ELSE subPath.commands[i].toPoint

\* whether r is the reversal of segment s ending at `to`: the same variant,
\* the control points of a cubic swapped, the control point of a quadratic
\* kept, the sweepFlag of an Arc negated and its other fields unchanged
IsReversal(r, s, to) ==
  /\ r.type = s.type
  /\ r.toPoint = to
  /\ s.type = "C" => r.controlPoints = <<s.controlPoints[2], s.controlPoints[1]>>
  /\ s.type = "Q" => r.controlPoints = s.controlPoints
  /\ s.type = "A" =>
       /\ r.radiusX = s.radiusX
       /\ r.radiusY = s.radiusY
       /\ r.rotateDegrees = s.rotateDegrees
       /\ Flag(r, "largeArcFlag") = Flag(s, "largeArcFlag")
       /\ Flag(r, "sweepFlag") = ~Flag(s, "sweepFlag")

\* C16: invert of an empty subpath.  A SubPath without segments comes back
\* with the same startPoint, no segment and the same closed value.
C16_InvertEmpty ==
  /\ Len(delivered) = taken
  /\ \A i \in 1..taken :
       input[i].commands = <<>> =>
         /\ delivered[i].startPoint = input[i].startPoint
         /\ delivered[i].commands = <<>>
         /\ delivered[i].closed = Flag(input[i], "closed")

\* reached: a closed SubPath without segments has been inverted
C16_Witness ==
  \E i \in 1..taken : input[i].commands = <<>> /\ Flag(input[i], "closed")

\* C17: invert of a closed subpath.  For a closed SubPath with segments
\* s1..sn the result is closed, starts at p0 and holds: a Line to pn when pn
\* differs from p0, then the reversals of sn, ..., s1 (that of si ending at
\* p(i-1)), the last segment left out when it is a Line landing on p0.
\* start{0,0}, [Line{100,100}, Line{0,100}] gives [Line{0,100}, Line{100,100}].
C17_InvertClosed ==
  \A i \in 1..taken :
    (Flag(input[i], "closed") /\ input[i].commands # <<>>) =>
      LET sp == input[i]
          n == Len(sp.commands)
          p0 == sp.startPoint
          lead == IF PointAt(sp, n) # p0 THEN 1 ELSE 0
          drop == IF sp.commands[1].type = "L" THEN 1 ELSE 0
          r == delivered[i]
      IN  /\ r.closed = TRUE
          /\ r.startPoint = p0
          /\ Len(r.commands) = lead + n - drop
          /\ lead = 1 => r.commands[1] = Line(PointAt(sp, n))
          /\ \A j \in 1..(n - drop) :
               IsReversal(r.commands[lead + j], sp.commands[n + 1 - j], PointAt(sp, n - j))
          /\ sp.commands = <<Line(Pt(Num(100), Num(100))), Line(Pt(Num(0), Num(100)))>> =>
               r.commands = <<Line(Pt(Num(0), Num(100))), Line(Pt(Num(100), Num(100)))>>

\* reached: closed SubPaths have been inverted, one that ends away from its
\* start and begins with a curve, one that ends at its start
C17_Witness ==
  /\ \E i \in 1..taken :
       /\ Flag(input[i], "closed")
       /\ Len(input[i].commands) > 1
       /\ input[i].commands[1].type = "C"
       /\ PointAt(input[i], Len(input[i].commands)) # input[i].startPoint
  /\ \E i \in 1..taken :
       /\ Flag(input[i], "closed")
       /\ Len(input[i].commands) > 1
       /\ PointAt(input[i], Len(input[i].commands)) = input[i].startPoint

\* C18: invert of an unclosed subpath.  For an unclosed SubPath with
\* segments s1..sn the result has closed = false, starts at pn and holds
\* exactly n segments, segment j the reversal of s(n+1-j) ending at p(n-j).
C18_InvertUnclosed ==
  \A i \in 1..taken :
    (~Flag(input[i], "closed") /\ input[i].commands # <<>>) =>
      LET sp == input[i]
          n == Len(sp.commands)
          r == delivered[i]
      IN  /\ r.closed = FALSE
          /\ r.startPoint = PointAt(sp, n)
          /\ Len(r.commands) = n
          /\ \A j \in 1..n :
               IsReversal(r.commands[j], sp.commands[n + 1 - j], PointAt(sp, n - j))

\* reached: an unclosed SubPath of a quadratic, a cubic and an Arc has been
\* inverted, and one with an Arc without flags
C18_Witness ==
  /\ \E i \in 1..taken :
       /\ ~Flag(input[i], "closed")
       /\ Len(input[i].commands) = 3
       /\ input[i].commands[2].type = "C"
       /\ input[i].commands[2].controlPoints[1] # input[i].commands[2].controlPoints[2]
  /\ \E i \in 1..taken :
       /\ ~Flag(input[i], "closed")
       /\ input[i].commands # <<>>
       /\ input[i].commands[1].type = "A"
       /\ "sweepFlag" \notin DOMAIN input[i].commands[1]

\* a SubPath without Arc segments
NoArc(subPath) == \A k \in 1..Len(subPath.commands) : subPath.commands[k].type # "A"

\* whether inverting the inverted SubPath gives the start point and the
\* segments of the i-th SubPath of the source back
InvertedTwiceSame(i) ==
  LET twice == Invert(delivered[i])
  IN  twice.startPoint = input[i].startPoint /\ twice.commands = input[i].commands

\* a closed SubPath whose first or last segment is a Line that lands on the
\* start point
ClosedByLine(subPath) ==
  /\ Flag(subPath, "closed")
  /\ subPath.commands # <<>>
  /\ \E k \in {1, Len(subPath.commands)} :
       /\ subPath.commands[k].type = "L"
       /\ subPath.commands[k].toPoint = subPath.startPoint

\* C19 as stated: inversion involution.  For every SubPath without Arc
\* segments, closed or not, inverting twice gives the same startPoint and
\* the same segments.
C19_Involution ==
  \A i \in 1..taken : NoArc(input[i]) => InvertedTwiceSame(i)

\* C19 amended: for a SubPath without Arc segments, inverting twice gives
\* the same startPoint and the same segments exactly when the SubPath is not
\* a closed one whose first or last segment is a Line landing on the start
\* point (such a Line is dropped).
C19_InvolutionNormalized ==
  \A i \in 1..taken : NoArc(input[i]) => (InvertedTwiceSame(i) <=> ~ClosedByLine(input[i]))

\* reached: inverted twice, a closed SubPath of two segments that begins
\* with a Line and comes back the same, and a closed one with a Line
\* landing on its start that does not
C19_Witness ==
  /\ \E i \in 1..taken :
       /\ NoArc(input[i]) /\ Flag(input[i], "closed") /\ ~ClosedByLine(input[i])
       /\ Len(input[i].commands) = 2
       /\ input[i].commands[1].type = "L"
       /\ InvertedTwiceSame(i)
  /\ \E i \in 1..taken :
       /\ NoArc(input[i]) /\ ClosedByLine(input[i])
       /\ Len(input[i].commands) > 1
       /\ ~InvertedTwiceSame(i)

RECURSIVE EmittedFor(_, _)
\* what the handler calls of log emitted for SubPath number sub, in order
EmittedFor(log, sub) ==
  IF log = <<>> THEN <<>>
  ELSE (IF Head(log).sub = sub THEN Head(log).emitted ELSE <<>>)
       \o EmittedFor(Tail(log), sub)

\* C20: degenerate arc.  An Arc with radiusX = 0 or radiusY = 0 is replaced
\* by exactly one Line to the Arc's toPoint, whatever its other fields and
\* the point it starts from; the Line is what the consumer receives in the
\* Arc's place.
C20_DegenerateArc ==
  /\ \A n \in 1..Len(opState.log) :
       LET e == opState.log[n]
       IN  (/\ e.command.type = "A"
            /\ e.command.radiusX = Num(0) \/ e.command.radiusY = Num(0))
           => e.emitted = <<Line(e.command.toPoint)>>
  /\ \A i \in 1..Len(delivered) :
       delivered[i].commands = EmittedFor(opState.log, i)

\* reached: Arcs with only radiusX zero and with only radiusY zero have been
\* replaced, one of them between two other segments and away from where it
\* starts, one with a rotation
C20_Witness ==
  /\ \E n \in 2..Len(opState.log) :
       /\ opState.log[n].command.type = "A"
       /\ opState.log[n].command.radiusX = Num(0)
       /\ opState.log[n].command.radiusY # Num(0)
       /\ opState.log[n].from # opState.log[n].command.toPoint
       /\ opState.log[n].from # input[opState.log[n].sub].startPoint
  /\ \E n \in 1..Len(opState.log) :
       /\ opState.log[n].command.type = "A"
       /\ opState.log[n].command.radiusY = Num(0)
       /\ opState.log[n].command.radiusX # Num(0)
       /\ opState.log[n].command.rotateDegrees # Num(0)

RECURSIVE CommandsFor(_, _)
\* the commands the handler was called with for SubPath number sub, in order
CommandsFor(log, sub) ==
  IF log = <<>> THEN <<>>
  ELSE (IF Head(log).sub = sub THEN <<Head(log).command>> ELSE <<>>)
       \o CommandsFor(Tail(log), sub)

\* what stands in the place of one input segment: the segment itself, or for
\* an Arc one Line or one or more CubicCurves
ReplacesInPlace(command, emitted) ==
  IF command.type # "A" THEN emitted = <<command>>
  ELSE /\ Len(emitted) >= 1
       /\ \/ Len(emitted) = 1 /\ emitted[1].type = "L"
          \/ \A j \in 1..Len(emitted) : emitted[j].type = "C"

\* C21: arc removal.  The segments curvifyArcCommands / curvifySubPaths
\* deliver never contain an Arc; the input segments are taken once each and
\* in order, a non-Arc segment is emitted unchanged and an Arc is replaced in
\* place by one Line or by one or more CubicCurves; startPoint and closed of
\* the SubPath are carried over unchanged.
C21_ArcRemoval ==
  /\ \A i \in 1..Len(delivered) :
       /\ \A j \in 1..Len(delivered[i].commands) : delivered[i].commands[j].type # "A"
       /\ delivered[i].commands = EmittedFor(opState.log, i)
       /\ CommandsFor(opState.log, i)
            = SubSeq(input[i].commands, 1, Len(CommandsFor(opState.log, i)))
       /\ delivered[i].startPoint = input[i].startPoint
       /\ ("closed" \in DOMAIN delivered[i]) = ("closed" \in DOMAIN input[i])
       /\ Flag(delivered[i], "closed") = Flag(input[i], "closed")
  /\ \A n \in 1..Len(opState.log) :
       ReplacesInPlace(opState.log[n].command, opState.log[n].emitted)

\* the log entries of Arcs that were replaced by cubics
CurvedArcs ==
  {n \in 1..Len(opState.log) :
     /\ opState.log[n].command.type = "A"
     /\ opState.log[n].emitted # <<>>
     /\ opState.log[n].emitted[1].type = "C"}

\* a computed point, given in quarters with a part in sqrt(2), is the point p
SamePoint(computed, p) ==
  /\ ~p.x.nan /\ ~p.y.nan
  /\ computed.x4 = 4 * p.x.v
  /\ computed.y4 = 4 * p.y.v
  /\ computed.yroot = 0

\* C22: arc endpoint preservation.  For every Arc that is replaced by
\* cubics, the toPoint of the last cubic is the Arc's toPoint.
C22_ArcEndpoint ==
  \A n \in CurvedArcs :
    LET e == opState.log[n]
    IN  SamePoint(e.emitted[Len(e.emitted)].toPoint, e.command.toPoint)

\* The sweep of an elliptical arc as SVG defines it, for the rotations 0
\* and 90: with (px, py) the half chord turned back by the rotation and
\* lambda = px*px/(rx*rx) + py*py/(ry*ry), the two radius vectors enclose
\* the angle acos(1 - 2*lambda) when lambda < 1 and 180 degrees otherwise;
\* the arc sweeps that angle without largeArcFlag and 360 degrees less that
\* angle with it.  SweepAgainst is the sign of lambda - n/2.
SweepAgainst(lp, command, n) ==
  LET dx == lp.x.v - command.toPoint.x.v
      dy == lp.y.v - command.toPoint.y.v
      rxsq == command.radiusX.v * command.radiusX.v
      rysq == command.radiusY.v * command.radiusY.v
      lambda4 == IF command.rotateDegrees.v = 0
                 THEN rysq * dx * dx + rxsq * dy * dy
                 ELSE rysq * dy * dy + rxsq * dx * dx
  IN  SignRoot2(lambda4 - n * 2 * rxsq * rysq, 0)

\* the smallest n >= 1 with |sweep| / n <= 90 degrees
MinimalCubics(lp, command) ==
  IF SweepAgainst(lp, command, 2) >= 0 THEN 2
  ELSE IF Flag(command, "largeArcFlag")
       THEN (IF SweepAgainst(lp, command, 1) < 0 THEN 4 ELSE 3)
       ELSE (IF SweepAgainst(lp, command, 1) <= 0 THEN 1 ELSE 2)

\* C23: minimal cubic count.  An Arc that is replaced by cubics is replaced
\* by the smallest number n >= 1 of them with |sweep| / n <= 90 degrees; the
\* Arc {rx 100, ry 100, rot 0, large false, sweep false, to {50,0}} from
\* {0,0} yields one cubic.
C23_MinimalCubics ==
  \A n \in CurvedArcs :
    LET e == opState.log[n]
    IN  /\ Len(e.emitted) = MinimalCubics(e.from, e.command)
        /\ (/\ e.from = Pt(Num(0), Num(0))
            /\ e.command = Arc(Num(100), Num(100), Num(0), FALSE, FALSE,
                               Pt(Num(50), Num(0))))
           => Len(e.emitted) = 1

\* C24: the point transform rejects arcs.  transformPathCommandPoints, alone
\* and within transformSubPathPoints, signals an error when it reaches an
\* Arc, emits nothing for it and nothing after it, and never emits an Arc;
\* a Line, QuadraticCurve or CubicCurve is emitted as the same variant with
\* every control point and its end point replaced by the image under the
\* transformer.
C24_TransformRejectsArcs ==
  /\ \A i \in 1..Len(delivered) :
       /\ \A j \in 1..Len(delivered[i].commands) : delivered[i].commands[j].type # "A"
       /\ delivered[i].commands = EmittedFor(opState.log, i)
       /\ CommandsFor(opState.log, i)
            = SubSeq(input[i].commands, 1, Len(CommandsFor(opState.log, i)))
  /\ \A n \in 1..Len(opState.log) :
       LET e == opState.log[n]
       IN  IF e.command.type = "A"
           THEN /\ e.error
                /\ e.emitted = <<>>
                /\ \A m \in (n + 1)..Len(opState.log) : opState.log[m].sub # e.sub
           ELSE /\ ~e.error
                /\ Len(e.emitted) = 1
                /\ e.emitted[1].type = e.command.type
                /\ e.emitted[1].toPoint
                     = TransformPoint(opState.transformer, e.command.toPoint)
                /\ e.command.type \in {"Q", "C"} =>
                     /\ Len(e.emitted[1].controlPoints) = Len(e.command.controlPoints)
                     /\ \A c \in 1..Len(e.command.controlPoints) :
                          e.emitted[1].controlPoints[c]
                            = TransformPoint(opState.transformer,
                                             e.command.controlPoints[c])

\* reached: an Arc between two other segments has failed the commands of a
\* SubPath after a Line was transformed, and a later SubPath has had a
\* QuadraticCurve and a CubicCurve transformed
C24_Witness ==
  /\ \E n \in 2..Len(opState.log) :
       /\ opState.log[n].error
       /\ opState.log[n - 1].sub = opState.log[n].sub
       /\ opState.log[n - 1].command.type = "L"
       /\ Len(input[opState.log[n].sub].commands) > Len(CommandsFor(opState.log, opState.log[n].sub))
       /\ \E m \in (n + 1)..Len(opState.log) :
            /\ opState.log[m].command.type = "C"
            /\ opState.log[m - 1].command.type = "Q"
            /\ opState.log[m].emitted # <<opState.log[m].command>>

\* the parse of one subpath text as a document of its own, the current
\* point being lp
ParsedAlone(lp, text) ==
  SourceComplete(SplitterNext([FsInit EXCEPT !.lastPoint = lp], text))

RECURSIVE BeforeFailure(_, _)

\* the SubPath of a text that parses, then those of the texts after it
ThenBeforeFailure(alone, rest) ==
  IF alone.status = "error" THEN <<>>
  ELSE alone.out \o BeforeFailure(rest, alone.lastPoint)

\* the SubPaths of the subpath texts that precede the first one that fails
BeforeFailure(texts, lp) ==
  IF texts = <<>> THEN <<>>
  ELSE ThenBeforeFailure(ParsedAlone(lp, Head(texts)), Tail(texts))

\* C25: errors are terminal.  When fromSVGPathData has delivered an error,
\* the consumer has received the SubPaths that precede the failing subpath
\* in the document, in order, and nothing else: no SubPath of the text after
\* it, in the same chunk or in later ones, and no completion.
C25_ErrorsTerminal ==
  status = "error" => out = BeforeFailure(parts, Pt(Num(0), Num(0)))

\* C26: no shared state between parse invocations.  Every subscription to
\* the observable built with fromSVGPathData over one input delivers the
\* same SubPaths and the same terminal notification: a subscription that
\* has ended has delivered what each subscription before it delivered.
C26_NoSharedState ==
  status # "open" =>
    \A i \in 1..Len(earlier) :
      /\ earlier[i].status = status
      /\ earlier[i].out = out

\* C27: cancellation.  After the consumer has unsubscribed from the output
\* of curvifyArcCommands it is delivered nothing further, and no command
\* that the source produces afterwards is handled.
C27_Cancellation ==
  (taken > 0 /\ opState.unsubscribed) =>
    /\ Len(delivered[taken].commands) = opState.nAt
    /\ opState.k = opState.kAt

LineFamily == {"L", "l", "H", "h", "V", "v"}

SmoothFamily == {"T", "t", "S", "s"}

\* both mirrors of a cursor are its current point
MirrorsAtCurrent(c) == c.qMirror = c.lastPoint /\ c.cMirror = c.lastPoint

\* the command in front of call ij is one of the given letters
Follows(ij, codes) == ij[2] > 1 /\ Entry(<<ij[1], ij[2] - 1>>).code \in codes

\* C28: mirrors reset at subpath start and after line commands.  Both
\* mirrors are the start point when the first command of a subpath begins
\* and the new current point after every L/l/H/h/V/v command, so the first
\* group of a T/t or S/s command that opens a subpath or directly follows a
\* line command gets the current point as its reflected control point.
C28_MirrorsReset ==
  \A ij \in LogIdx :
    LET e == Entry(ij)
    IN  /\ ij[2] = 1 => MirrorsAtCurrent(e.pre)
        /\ (e.err = "" /\ e.code \in LineFamily) => MirrorsAtCurrent(e.post)
        /\ (e.err = "" /\ e.code \in SmoothFamily
              /\ (ij[2] = 1 \/ Follows(ij, LineFamily))) =>
             e.segs[1].controlPoints[1] = e.pre.lastPoint

\* reached: a T/t or S/s command right after a line command that moved the
\* current point away from the start point
C28_Witness ==
  /\ status = "complete"
  /\ \E ij \in LogIdx :
       /\ Follows(ij, LineFamily)
       /\ Entry(ij).err = ""
       /\ Entry(ij).code \in SmoothFamily
       /\ Entry(ij).pre.lastPoint # Entry(<<ij[1], 1>>).pre.lastPoint
       /\ Entry(ij).segs[1].controlPoints[1] = Entry(ij).pre.lastPoint

QuadraticFamily == {"Q", "q", "T", "t"}

CubicFamily == {"C", "c", "S", "s"}

\* the first group of call ij gets the current point as reflected control point
ReflectsToCurrent(ij) == Entry(ij).segs[1].controlPoints[1] = Entry(ij).pre.lastPoint

\* C29: cross-family mirror update.  After a Q/q/T/t command the cubic
\* mirror is the new current point and after a C/c/S/s command the quadratic
\* mirror is the new current point, so an S/s directly after a quadratic
\* command and a T/t directly after a cubic command get the current point
\* as their reflected control point.
C29_CrossFamilyMirror ==
  \A ij \in LogIdx :
    LET e == Entry(ij)
    IN  e.err = "" =>
          /\ e.code \in QuadraticFamily => e.post.cMirror = e.post.lastPoint
          /\ e.code \in CubicFamily => e.post.qMirror = e.post.lastPoint
          /\ (e.code \in {"S", "s"} /\ Follows(ij, QuadraticFamily)) =>
               ReflectsToCurrent(ij)
          /\ (e.code \in {"T", "t"} /\ Follows(ij, CubicFamily)) =>
               ReflectsToCurrent(ij)

\* C30: arc resets mirrors.  Each group of 7 numbers of an A/a command
\* emits one Arc with the given radii, rotation, flags (non-zero is true)
\* and endpoint (offset by the current point for a); after the command both
\* mirrors are the new current point, so a T/t or S/s directly after it
\* gets the current point as its reflected control point.
C30_ArcResetsMirrors ==
  \A ij \in LogIdx :
    LET e == Entry(ij)
    IN  e.err = "" =>
          /\ e.code \in {"A", "a"} =>
               /\ Len(e.segs) * 7 = Len(e.params)
               /\ \A k \in 1..Len(e.segs) :
                    LET cur == CurrentBefore(e, k)
                        x == GroupParam(e, k, 6)
                        y == GroupParam(e, k, 7)
                    IN  e.segs[k] =
                          Arc(GroupParam(e, k, 1), GroupParam(e, k, 2),
                              GroupParam(e, k, 3),
                              Truthy(GroupParam(e, k, 4)), Truthy(GroupParam(e, k, 5)),
                              IF e.code = "a" THEN Pt(Add(cur.x, x), Add(cur.y, y))
                              ELSE Pt(x, y))
               /\ MirrorsAtCurrent(e.post)
          /\ (e.code \in SmoothFamily /\ Follows(ij, {"A", "a"})) =>
               ReflectsToCurrent(ij)

\* the i-th string handed over is a move directive with one coordinate pair
\* and nothing else
MoveOnly(i) ==
  LET m == SubPathMatch(handed[i])
  IN  /\ m.ok
      /\ ~HasNonSpace(m.m3)
      /\ ~m.m4
      /\ Len(MoveParamsOf(i)) = 2
      /\ ~MoveParamsOf(i)[1].nan
      /\ ~MoveParamsOf(i)[2].nan

\* the current point a SubPath leaves: the end of its last segment, its
\* start point when it has no segment
PointAfter(subPath) ==
  IF subPath.commands = <<>> THEN subPath.startPoint
  ELSE subPath.commands[Len(subPath.commands)].toPoint

\* the start point the move directive of the i-th string gives
StartOf(i) ==
  LET mp == MoveParamsOf(i)
      P == IF i = 1 THEN Pt(Num(0), Num(0)) ELSE PointAfter(out[i - 1])
  IN  IF MoveLetterOf(i) = "m" THEN Pt(Add(P.x, mp[1]), Add(P.y, mp[2]))
      ELSE Pt(mp[1], mp[2])

\* C31: move-only subpath.  A subpath that is a move directive with one
\* coordinate pair and no drawing command is delivered as a SubPath with
\* that start point, no segments and closed = false; the parse does not
\* fail, and a relative move that follows starts from that start point.
C31_MoveOnlySubPath ==
  \A i \in 1..Len(handed) :
    MoveOnly(i) =>
      /\ status # "error"
      /\ Len(out) >= i
      /\ out[i] = [closed |-> FALSE, startPoint |-> StartOf(i), commands |-> <<>>]
      /\ Len(out) > i => out[i + 1].startPoint = StartOf(i + 1)

RECURSIVE CountIn(_, _)
\* how many characters of s are in set
CountIn(s, set) ==
  IF s = <<>> THEN 0
  ELSE (IF Head(s) \in set THEN 1 ELSE 0) + CountIn(Tail(s), set)

\* pathCommands given the whole command text as one chunk
AsOneChunk == PathCommands(tokenizer.startPoint, doc)

\* the command letters the source has delivered so far
LettersDelivered == CountIn(SubSeq(doc, 1, pos), CmdLetters)

\* C32: tokenizer chunk invariance.  However the command text is cut into
\* chunks, pathCommands emits the segments and then the completion or error
\* that it emits for the text as one chunk.  While it is open it has parsed
\* exactly the commands that are followed by a command letter received so
\* far, the same way as for one chunk, and has emitted their segments; the
\* last command is parsed at completion.
C32_TokenizerChunkInvariance ==
  LET pc == tokenizer.pc
      one == AsOneChunk
  IN  /\ pc.status # "open" =>
           /\ pc.status = one.status
           /\ pc.segs = one.segs
           /\ pc.log = one.log
      /\ pc.status = "open" =>
           /\ Len(pc.log) = (IF LettersDelivered = 0 THEN 0 ELSE LettersDelivered - 1)
           /\ Len(pc.log) <= Len(one.log)
           /\ pc.log = SubSeq(one.log, 1, Len(pc.log))
           /\ pc.segs = LoggedSegs(pc.log)
      /\ pc.status = "complete" => Len(pc.log) = LettersDelivered

\* reached: a text of two commands, cut between two digits of a number of
\* the second, has completed with the segments of both
C32_Witness ==
  /\ tokenizer.pc.status = "complete"
  /\ cutInNumber
  /\ Len(tokenizer.pc.log) = 2
  /\ tokenizer.pc.log[2].segs # <<>>
  /\ Len(tokenizer.pc.segs) > Len(tokenizer.pc.log[2].segs)

RECURSIVE LenBefore(_, _)
\* the number of characters of the pieces before piece i
LenBefore(ps, i) == IF i <= 1 THEN 0 ELSE LenBefore(ps, i - 1) + Len(ps[i - 1])

\* the number of subpaths among the first n pieces of a document of subpaths
SubPathsAmong(ps, n) == Cardinality({j \in 1..n : ps[j] \in GoodSubPaths})

\* C33: incremental emission.  In a document of subpaths, once a chunk that
\* holds the move letter of subpath k+1 has been received, the SubPath of
\* subpath k has been delivered, before the input completes and whether or
\* not subpath k ends with a close directive.
C33_IncrementalEmission ==
  IsSubPathDoc(parts) =>
    \A i \in 2..Len(parts) :
      (parts[i] \in GoodSubPaths /\ pos > LenBefore(parts, i)) =>
        Len(out) >= SubPathsAmong(parts, i - 1)

\* piece i is a close directive that ends a subpath which follows whole
\* subpaths only, and the piece after it is a drawing command
CloseThenCommand(ps, i) ==
  /\ i > 1
  /\ i < Len(ps)
  /\ ps[i] \in CloseFrags
  /\ ps[i + 1] = <<"L", "3", ",", "4">>
  /\ \A j \in 1..(i - 1) : ps[j] \in GoodSubPaths

\* C34: close only terminates.  A SubPath is closed exactly when its text
\* has one close directive and nothing but blanks after it.  Text in which a
\* close directive is followed by a drawing command before the next move
\* directive ends the parse with an error, and no SubPath is delivered for
\* it: only the subpaths in front of it are.
C34_CloseOnlyTerminates ==
  /\ \A i \in 1..Len(out) :
       LET t == TrimRight(handed[i])
       IN  /\ out[i].closed <=> t[Len(t)] \in {"z", "Z"}
           /\ CountIn(handed[i], {"z", "Z"}) = (IF out[i].closed THEN 1 ELSE 0)
  /\ \A i \in 1..Len(parts) :
       CloseThenCommand(parts, i) =>
         /\ Len(out) <= i - 2
         /\ status # "complete"
         /\ Done => Len(out) = i - 2

\* reached: the parse of a document such as 'M0,0L3,4ZL3,4' has ended
C34_Witness ==
  /\ status = "error"
  /\ pos = Len(doc)
  /\ \E i \in 1..Len(parts) : CloseThenCommand(parts, i)

\* C35: sweep direction.  For every Arc that is replaced by cubics and whose
\* radii are large enough for its chord, the angular sweep the cubics are
\* generated from is <= 0 when sweepFlag is false or absent and >= 0 when
\* sweepFlag is true; it is at most 360 degrees, so there are at most 4 cubics.
C35_SweepDirection ==
  \A n \in CurvedArcs :
    LET e == opState.log[n]
    IN  /\ Len(e.emitted) <= 4
        /\ LambdaAgainst(e.from, e.command, 2) < 0 =>
             IF Flag(e.command, "sweepFlag")
             THEN SweepSign(e.from, e.command) >= 0
             ELSE SweepSign(e.from, e.command) <= 0

\* call n of the handler is the first one for its SubPath
FirstOfSubPath(n) == n = 1 \/ opState.log[n - 1].sub # opState.log[n].sub

\* C36: arc start tracking.  The point each command is handled from, the
\* start of each Arc among them, is the toPoint of the command received
\* just before it in the same SubPath, and the start point passed in for
\* the first command.  After an Arc, degenerate or not, the tracked point is
\* the Arc's own toPoint, whatever the end of the last cubic emitted for it.
C36_ArcStartTracking ==
  /\ \A n \in 1..Len(opState.log) :
       LET e == opState.log[n]
       IN  e.from = IF FirstOfSubPath(n) THEN input[e.sub].startPoint
                    ELSE opState.log[n - 1].command.toPoint
  /\ (taken > 0 /\ opState.k > 0) =>
       opState.lastPoint = input[taken].commands[opState.k].toPoint
  /\ (taken > 0 /\ opState.k = 0) => opState.lastPoint = input[taken].startPoint

\* reached: an Arc handled right after an Arc that became cubics, away from
\* the start point, and a command handled right after an Arc whose last
\* cubic does not end at the Arc's toPoint
C36_Witness ==
  /\ \E n \in CurvedArcs :
       /\ ~FirstOfSubPath(n)
       /\ (n - 1) \in CurvedArcs
       /\ opState.log[n].from # input[opState.log[n].sub].startPoint
  /\ \E n \in CurvedArcs :
       /\ n < Len(opState.log)
       /\ ~FirstOfSubPath(n + 1)
       /\ ~SamePoint(opState.log[n].emitted[Len(opState.log[n].emitted)].toPoint,
                     opState.log[n].command.toPoint)
       /\ opState.log[n + 1].from = opState.log[n].command.toPoint

\* C37: the serializer keeps subpaths apart.  Whatever toSVGPathData has
\* delivered is the beginning of the fragments of the SubPaths in their
\* order, each SubPath's fragments together (move, segments, Z), also when
\* the commands of a SubPath deliver later while further SubPaths have
\* arrived; at completion every fragment has been delivered.
C37_SubpathsApart ==
  /\ Len(delivered) <= Len(ToSVGPathData(input))
  /\ delivered = SubSeq(ToSVGPathData(input), 1, Len(delivered))
  /\ \A a \in 1..Len(opState.log) : \A b \in a..Len(opState.log) :
       opState.log[a] <= opState.log[b]
  /\ Cardinality({i \in 1..taken : opState.inner[i] = "active"}) <= 1
  /\ opStatus = "complete" => delivered = ToSVGPathData(input)

\* reached: the serialization has completed after a SubPath with segments,
\* whose commands deliver later, was followed by another SubPath that
\* arrived before those commands had completed
C37_Witness ==
  /\ opStatus = "complete"
  /\ opState.waited
  /\ Len(input) = 2
  /\ 1 \in opState.async
  /\ Len(input[1].commands) >= 2
  /\ "svgPathData" \notin DOMAIN input[1]

\* C38: inversion does not mutate its input.  After invertSubPaths has
\* produced results, every SubPath of the source has the startPoint, the
\* closed value and the commands, in length, order and elements, that it
\* had before; each result has an array of its own, and it is the inversion
\* of what the SubPath was.
C38_InputNotMutated ==
  /\ \A i \in 1..Len(input) :
       Deref(opState.objects[i], opState.arrays) = input[i]
  /\ \A j \in 1..taken :
       /\ opState.results[j] \notin 1..Len(input)
       /\ \A n \in 1..(j - 1) : opState.results[n] # opState.results[j]
       /\ delivered[j] = Invert(input[j])
       /\ opState.arrays[opState.results[j]] = delivered[j].commands

\* reached: a closed SubPath that does not end where it starts, with a
\* cubic among its segments, has been inverted, and a second SubPath after it
C38_Witness ==
  /\ opStatus = "complete"
  /\ taken = 2
  /\ Flag(input[1], "closed")
  /\ \E n \in 1..Len(input[1].commands) : input[1].commands[n].type = "C"
  /\ Len(delivered[1].commands) > Len(input[1].commands)
  /\ delivered[2].commands # input[2].commands

\* some command of a logged subpath failed
SomeFailed(log) == \E j \in 1..Len(log) : log[j].err # ""

\* C39: no partial subpath.  Every SubPath delivered holds the segments of
\* all commands of its subpath, none of which failed.  For a subpath with
\* a command that failed no SubPath is delivered, whatever was parsed before
\* that command, and the parse ends with the error.
C39_NoPartialSubPath ==
  /\ Len(out) <= Len(cmdLog)
  /\ \A i \in 1..Len(out) :
       /\ ~SomeFailed(cmdLog[i])
       /\ out[i].commands = LoggedSegs(cmdLog[i])
  /\ \A i \in 1..Len(cmdLog) :
       SomeFailed(cmdLog[i]) =>
         /\ status = "error"
         /\ Len(out) = i - 1
         /\ Len(cmdLog) = i

\* reached: a subpath whose first command gave segments and whose second
\* command failed has ended the parse
C39_Witness ==
  /\ status = "error"
  /\ out = <<>>
  /\ Len(cmdLog) = 1
  /\ Len(cmdLog[1]) = 2
  /\ cmdLog[1][1].segs # <<>>
  /\ cmdLog[1][2].err # ""

RECURSIVE Regenerated(_, _)
\* the fragments that the fields of the first n results give
Regenerated(failed, n) ==
  IF n = 0 THEN <<>>
  ELSE Regenerated(failed, n - 1)
       \o (IF n \in failed THEN FragmentsUntilError(opState.results[n])
           ELSE SubPathFragmentsNoCache(opState.results[n]))

\* C40: cached text is not carried through transforms.  No SubPath that
\* invertSubPaths, curvifySubPaths or transformSubPathPoints delivers has
\* svgPathData, whether or not its input has; what toSVGPathData delivers
\* for the results is written from their startPoint and segments, and no
\* fragment is the cached text of an input.
C40_CachedTextNotCarried ==
  /\ \A i \in 1..Len(opState.results) : "svgPathData" \notin DOMAIN opState.results[i]
  /\ delivered = Regenerated(opState.failed, opState.serialized)
  /\ \A n \in 1..Len(delivered) : \A i \in 1..Len(input) :
       "svgPathData" \in DOMAIN input[i] => delivered[n] # input[i].svgPathData

\* reached: the results for two SubPaths, the first with cached text and
\* segments, have been serialized
C40_Witness ==
  /\ opStatus = "complete"
  /\ opState.serialized = 2
  /\ "svgPathData" \in DOMAIN input[1]
  /\ input[1].commands # <<>>
  /\ Len(delivered) > 2

====
